---- MODULE Spec2Model ----
(***************************************************************************)
(* Model of src/lib/analise-service.ts: the process-wide bearer token      *)
(* (obterToken), the authenticated request with its retry policy           *)
(* (fazerRequisicaoAutenticada), the entity decoder (mapearEntidades) and  *)
(* the cached aggregation (buscarDadosAnalise).                            *)
(*                                                                         *)
(* JavaScript runs one task at a time and a task gives up control only at  *)
(* an `await`.  Every action below is the code that runs between two       *)
(* awaits of one task, or one answer of the network.                       *)
(***************************************************************************)
EXTENDS Integers, Sequences, FiniteSets, TLC

(***************************************************************************)
(* Bounds of the model.                                                    *)
(***************************************************************************)
\* login requests (acquisitions) one behaviour may start
MaxAcq == 4
\* authenticated requests the callers of Spec may make in one behaviour
MaxCalls == 2

\* calls of buscarDadosAnalise in one behaviour of SpecFetch
MaxFetches == 2
\* anomalies of one behaviour of SpecFetch: failed logins, query answers other than
\* 200 and 400, bodies without entities or without metadata
MaxFetchFaults == 1

\* the concurrent tasks (HTTP handlers that reached the service)
Procs == {1, 2}
\* the tasks that call buscarDadosAnalise in SpecFetch
Fetchers == {1}

(***************************************************************************)
(* Program constants.                                                      *)
(***************************************************************************)
\* obterToken: const MAX_RETRIES = 3; const RETRY_DELAY = 2000
LOGIN_MAX_RETRIES == 3
LOGIN_RETRY_DELAY == 2000
\* fazerRequisicaoAutenticada: const MAX_RETRIES = 2; const RETRY_DELAY = 1000
MAX_RETRIES == 2
RETRY_DELAY == 1000
\* the fixed pause before the retry that follows a 401/403
AUTH_RETRY_DELAY == 500

(***************************************************************************)
(* What the network can answer.  An axios failure carries `code` (set for  *)
(* failures without an HTTP answer) and `response.status`; status 0 stands *)
(* for "no response object".                                               *)
(***************************************************************************)
Resp(c, s) == [code |-> c, status |-> s]
R200 == Resp("", 200)
R400 == Resp("", 400)
R401 == Resp("", 401)
R403 == Resp("", 403)
R500 == Resp("", 500)
R502 == Resp("", 502)
RTimeout == Resp("ECONNABORTED", 0)
RNetErr == Resp("ECONNRESET", 0)
NoResp == Resp("", 0)

\* answers of the query endpoint
QueryResponses == {R200, R400, R401, R502, RTimeout}
\* answers of the login endpoint; a 200 may come without a token in its body
LoginAnswer(r, t) == [code |-> r.code, status |-> r.status, hasToken |-> t]
LoginResponses ==
  { LoginAnswer(R200, TRUE), LoginAnswer(R200, FALSE), LoginAnswer(R401, FALSE),
    LoginAnswer(R500, FALSE), LoginAnswer(R502, FALSE), LoginAnswer(RTimeout, FALSE) }

\* a timeout or a 5xx answer
IsTransient(r) == r.code = "ECONNABORTED" \/ r.status >= 500
\* a specification may bound the answers of a behaviour that are neither a plain
\* success nor a plain refusal (budget >= 0); Unbounded leaves them to the retry
\* limits of the code
Unbounded == 0 - 1
\* a 200 whose body has no entities, or whose entities lack their metadata
IsOddBody(body) == ~body.hasEntities \/ ~body.entities.meta
Counted(r, body, budget) ==
  /\ budget # Unbounded
  /\ r.status \notin {200, 400} \/ (r.status = 200 /\ IsOddBody(body))
CountedLogin(r, budget) == budget # Unbounded /\ ~(r.status = 200 /\ r.hasToken)

(***************************************************************************)
(* The arguments of buscarDadosAnalise and the cache (lines 166-179).      *)
(* A date "YYYY-MM-DD" is the triple of its parts, and so is the text      *)
(* formatarDataParaSankhya makes of it.                                    *)
(***************************************************************************)
UserIds == {7, 8}

Jan == [dataInicio |-> <<"2024", "01", "01">>, dataFim |-> <<"2024", "01", "31">>]
Fev == [dataInicio |-> <<"2024", "02", "01">>, dataFim |-> <<"2024", "02", "29">>]
\* the ninety days up to 2024-03-31, the day the requests of SpecChat are made
Ultimos90 == [dataInicio |-> <<"2024", "01", "01">>, dataFim |-> <<"2024", "03", "31">>]
Filtros == {Jan, Fev, Ultimos90}

\* lines 138-141: split('-'), then `${dia}/${mes}/${ano}`
formatarDataParaSankhya(dataISO) == <<dataISO[3], dataISO[2], dataISO[1]>>

\* line 172: `analise:${userId}:${filtro.dataInicio}:${filtro.dataFim}`
CacheKey(userId, filtro) == <<"analise", userId, filtro.dataInicio, filtro.dataFim>>
Keys == {CacheKey(u, f) : u \in UserIds, f \in Filtros}
\* the arguments (filtro, userId, isAdmin) the calls of SpecFetch are made with
FetchArgs == {<<Jan, 7, FALSE>>, <<Jan, 7, TRUE>>, <<Fev, 8, FALSE>>}

\* redisCacheService.get answers this for a key it does not hold
NoEntry == [absent |-> TRUE]
\* redisCacheService.get(key) on the store c: the value last set, or NoEntry
CacheGet(c, k) == c[k]
\* redisCacheService.set(key, value, ttl) on the store c
CacheSet(c, k, v) == [c EXCEPT ![k] = v]
\* cache TTL in seconds (line 479: 30 * 60)
CACHE_TTL == 1800

\* the seven datasets of lines 276-377 in the order of their queries, and the
\* follow-up query of line 455
DatasetNames ==
  <<"leads", "atividades", "funis", "estagiosFunis", "pedidos", "produtos", "clientes",
    "produtosLeads">>
BaseDatasets == 1..7
LeadProducts == 8

\* a call of buscarDadosAnalise that has not been made.  Besides the locals of the
\* call it records: `reqs`, the query requests sent for it; `nAcq0`, the number of
\* login acquisitions started before it; `authError`, whether one of its queries
\* ended with the Error of line 83 or of line 124; `sets` and `ttl`, its cache
\* writes; `prevKey` and `prevRet`, the key and the value of the call the task
\* made before it, if that call returned
NoFetch ==
  [ pc |-> "idle", userId |-> 0, isAdmin |-> FALSE, filtro |-> Jan, d |-> 0, res |-> <<>>,
    criteria |-> <<>>, resultado |-> NoEntry, ret |-> NoEntry, hit |-> FALSE, sets |-> 0,
    ttl |-> 0, reqs |-> 0, nAcq0 |-> 0, authError |-> FALSE,
    prevKey |-> <<>>, prevRet |-> NoEntry ]

(***************************************************************************)
(* State.                                                                  *)
(***************************************************************************)
VARIABLES
  cachedToken,   \* let cachedToken: 0 is null, a > 0 is the token login a returned
  tokenPromise,  \* let tokenPromise: 0 is null, a > 0 is the promise of acquisition a
  acq,           \* the acquisitions (the async closures of obterToken) started so far
  nAcq,          \* how many were started
  ex,            \* per task: its current call of fazerRequisicaoAutenticada
  faults,        \* transient answers given so far, where a specification bounds them
  calls,         \* calls of fazerRequisicaoAutenticada made so far by the callers of Spec
  cache,         \* redisCacheService: key -> stored value, or NoEntry
  ft,            \* per task: its current call of buscarDadosAnalise
  fetches,       \* calls of buscarDadosAnalise made so far
  erpDown,       \* the datasets whose query the ERP refuses with a 400 in this behaviour
  mapper,        \* one call of mapearEntidades: its argument, and its outcome once made
  total,         \* one evaluation of line 496: the order records, and the sum once made
  chat           \* the chat route: the request it is handling, if any, and how far it is

tokenVars == <<cachedToken, tokenPromise, acq, nAcq>>
fetchVars == <<cache, ft, fetches, erpDown, mapper, total, chat>>
vars ==
  <<cachedToken, tokenPromise, acq, nAcq, ex, faults, calls, cache, ft, fetches, erpDown, mapper,
    total, chat>>

Acqs == 1..MaxAcq

\* an acquisition never started
NoAcq == [st |-> "unused", rc |-> 0, solo |-> FALSE]

\* resposta.data of a call that has not returned one
NoData == [hasEntities |-> FALSE]

\* a call that has not been made
NoCall ==
  [ pc |-> "idle", rc |-> 0, tok |-> 0, wait |-> 0, sent |-> 0, changed |-> FALSE,
    resps |-> <<>>, invals |-> 0, authRetries |-> 0, delays |-> <<>>,
    out |-> "none", err |-> NoResp, msg |-> "", data |-> NoData ]

\* an acquisition that has settled: its promise is resolved, rejected, or resolved
\* with the promise of the retry
Ended == [st |-> "ended", rc |-> 0, solo |-> FALSE]

Pending(a) == acq[a].st \in {"import", "inflight", "backoff"}

\* mapearEntidades not called
NoMap == [done |-> FALSE, arg |-> <<>>, out |-> <<>>]

\* line 496 not evaluated
NoTotal == [done |-> FALSE, pedidos |-> <<>>, out |-> 0]

\* the chat route with no request.  Besides the locals of the handler it
\* records: `n`, the requests handled so far; `fetches0`, the calls of
\* buscarDadosAnalise made before the request; `threw`, whether the call made
\* for the request threw; `status`, the status of the response, 0 while there
\* is none
NoChat ==
  [ pc |-> "idle", n |-> 0, history |-> <<>>, filtro |-> Jan, isAdmin |-> FALSE,
    fetches0 |-> 0, threw |-> FALSE, withContext |-> FALSE, dadosSistema |-> <<>>,
    status |-> 0 ]

Init ==
  /\ cachedToken = 0
  /\ tokenPromise = 0
  /\ acq = [a \in Acqs |-> NoAcq]
  /\ nAcq = 0
  /\ ex = [p \in Procs |-> NoCall]
  /\ faults = 0
  /\ calls = 0
  /\ cache = [k \in Keys |-> NoEntry]
  /\ ft = [p \in Procs |-> NoFetch]
  /\ fetches = 0
  /\ erpDown = {}
  /\ mapper = NoMap
  /\ total = NoTotal
  /\ chat = NoChat

(***************************************************************************)
(* obterToken (lines 35-90).                                               *)
(***************************************************************************)
\* (mutant) the cached token is not looked at
HasCachedTokenNever == FALSE

\* line 37: if (cachedToken) return cachedToken
HasCachedToken == cachedToken # 0

\* (mutant) the pending acquisition is not looked at
JoinsPendingNever == FALSE

\* (mutant) the caller awaits the slot even when it is empty
JoinsPendingAlways == TRUE

\* line 42: if (tokenPromise) return tokenPromise
JoinsPending == tokenPromise # 0

\* (mutant) the retry limit of the login is off by one
LoginRetryableOneMore(erro, rc) ==
  (erro.code = "ECONNABORTED" \/ erro.status = 500) /\ rc <= LOGIN_MAX_RETRIES

\* line 69: (erro.code === 'ECONNABORTED' || erro.response?.status === 500)
\*          && retryCount < MAX_RETRIES
LoginRetryable(erro, rc) ==
  (erro.code = "ECONNABORTED" \/ erro.status = 500) /\ rc < LOGIN_MAX_RETRIES

\* lines 72-73 and 85: the retry clears the slot, the nested obterToken call puts
\* the new closure's promise b in it, and the `finally` of the closure that is
\* returning runs next and clears the slot again
SlotAfterRetry(b) == 0

\* (mutant) a login answer without a token counts as a timeout
LoginErrorMissingTokenTransient(r) ==
  IF r.status = 200 THEN RTimeout ELSE Resp(r.code, r.status)

\* (mutant) the rejected promise stays in the slot
SlotAfterFailureKept(a) == tokenPromise

\* lines 77 and 85: tokenPromise = null, in the catch and again in the finally
SlotAfterFailure(a) == 0

\* lines 59-62: the error the closure's catch sees; a 200 without bearerToken or
\* token throws a plain Error, which has neither code nor response
LoginError(r) ==
  IF r.status = 200 THEN NoResp ELSE Resp(r.code, r.status)

\* lines 100-111: call c sends its query with token t.  `sent` counts the query
\* requests of the call and `changed` records whether t is another token than
\* the one of the attempt before
SendQuery(c, t) ==
  [c EXCEPT !.pc = "query", !.tok = t, !.sent = @ + 1, !.changed = (t # c.tok)]

\* the tasks that await acquisition a go on with token t: each sends its query
\* (lines 98-111)
ResumeWith(a, t) ==
  [p \in Procs |->
    IF ex[p].pc = "waitToken" /\ ex[p].wait = a
    THEN SendQuery(ex[p], t)
    ELSE ex[p]]

\* lines 80-83: the message of the Error the acquisition is rejected with; a
\* failed request carries the message axios gives it, written here as its status
ErrorMsg(r) ==
  IF r.code = "ECONNABORTED" THEN "Timeout ao conectar com Sankhya"
  ELSE IF r.status = 200 THEN "Token não encontrado na resposta de login."
  ELSE IF r.status = 401 THEN "status 401"
  ELSE "status 5xx"

\* The tests of the catch of fazerRequisicaoAutenticada (lines 113-134); a
\* rejected acquisition goes through them as a failed query does.
\* line 115: erro.response && (status === 401 || status === 403)
IsAuthExpired(erro) == erro.status = 401 \/ erro.status = 403

\* (mutant) a second retry after a 401/403
AuthRetryAllowedTwice(rc) == rc < 2

\* line 118: if (retryCount < 1)
AuthRetryAllowed(rc) == rc < 1

\* (mutant) the retry limit is off by one
TransientRetryOneMore(erro, rc) ==
  (erro.code = "ECONNABORTED" \/ erro.status >= 500) /\ rc <= MAX_RETRIES

\* (mutant) 4xx answers are retried like 5xx answers
TransientRetryClientErrors(erro, rc) ==
  (erro.code = "ECONNABORTED" \/ erro.status >= 400) /\ rc < MAX_RETRIES

\* line 128: (erro.code === 'ECONNABORTED' || erro.response?.status >= 500)
\*           && retryCount < MAX_RETRIES
TransientRetry(erro, rc) ==
  (erro.code = "ECONNABORTED" \/ erro.status >= 500) /\ rc < MAX_RETRIES

\* line 130: RETRY_DELAY * (retryCount + 1)
BackoffDelay(rc) == RETRY_DELAY * (rc + 1)

\* (mutant) the rejection carries the code of the login request that timed out
RejectionSeenAsTimeout == RTimeout

\* line 83: the acquisition is rejected with a new Error, which has neither
\* response nor code whatever the login request failed with
RejectionSeen == NoResp

\* (mutant) the rejection of the acquisition reaches nobody
RejectWaitersNobody(a, r) == ex

\* lines 98, 113-135: the tasks that await acquisition a see it rejected at
\* line 98, before any query is built, and the catch tests the rejection as it
\* tests the failure of a query
RejectWaiters(a, r) ==
  [p \in Procs |->
    IF ex[p].pc = "waitToken" /\ ex[p].wait = a
    THEN LET c == [ex[p] EXCEPT !.wait = 0] IN
         IF IsAuthExpired(RejectionSeen)
         THEN IF AuthRetryAllowed(c.rc)
              THEN [c EXCEPT !.pc = "sleep", !.rc = @ + 1, !.invals = @ + 1,
                             !.authRetries = @ + 1,
                             !.delays = Append(@, AUTH_RETRY_DELAY)]
              ELSE [c EXCEPT !.pc = "done", !.invals = @ + 1, !.out = "sessao", !.tok = 0]
         ELSE IF TransientRetry(RejectionSeen, c.rc)
         THEN [c EXCEPT !.pc = "sleep", !.rc = @ + 1,
                        !.delays = Append(@, BackoffDelay(c.rc))]
         ELSE [c EXCEPT !.pc = "done", !.out = "authfail", !.tok = 0,
                        !.msg = ErrorMsg(r)]
    ELSE ex[p]]

\* promise a was resolved with promise b: who awaits a, awaits b
Redirect(a, b) ==
  [p \in Procs |->
    IF ex[p].pc = "waitToken" /\ ex[p].wait = a
    THEN [ex[p] EXCEPT !.wait = b]
    ELSE ex[p]]

\* lines 50-57: a new closure, which runs up to `await import('axios')`
NewAcq(rc) ==
  [st |-> "import", rc |-> rc, solo |-> \A b \in Acqs : ~Pending(b)]

\* line 54: the closure posts the login request
LoginSend(a) ==
  /\ acq[a].st = "import"
  /\ acq' = [acq EXCEPT ![a].st = "inflight"]
  /\ UNCHANGED <<cachedToken, tokenPromise, nAcq, ex, faults, calls, fetchVars>>

\* lines 54-86: the login request of acquisition a is answered with r
LoginResponse(a, r, budget) ==
  /\ acq[a].st = "inflight"
  /\ CountedLogin(r, budget) => faults < budget
  /\ faults' = IF CountedLogin(r, budget) THEN faults + 1 ELSE faults
  /\ UNCHANGED <<nAcq, calls, fetchVars>>
  /\ IF r.status = 200 /\ r.hasToken
     THEN \* lines 59-66, 85
          /\ cachedToken' = a
          /\ tokenPromise' = 0
          /\ acq' = [acq EXCEPT ![a] = Ended]
          /\ ex' = ResumeWith(a, a)
     ELSE IF LoginRetryable(LoginError(r), acq[a].rc)
     THEN \* lines 69-71: sleep RETRY_DELAY * (retryCount + 1)
          /\ acq' = [acq EXCEPT ![a].st = "backoff"]
          /\ UNCHANGED <<cachedToken, tokenPromise, ex>>
     ELSE \* lines 76-85
          /\ cachedToken' = 0
          /\ tokenPromise' = SlotAfterFailure(a)
          /\ acq' = [acq EXCEPT ![a] = Ended]
          /\ ex' = RejectWaiters(a, r)

\* lines 72-73, 85: the pause is over; tokenPromise = null; return obterToken(rc + 1)
LoginRetry(a) ==
  /\ acq[a].st = "backoff"
  /\ UNCHANGED <<faults, calls, fetchVars>>
  /\ IF HasCachedToken
     THEN \* the nested call returns the cached token (line 38)
          /\ acq' = [acq EXCEPT ![a] = Ended]
          /\ tokenPromise' = 0
          /\ ex' = ResumeWith(a, cachedToken)
          /\ UNCHANGED <<cachedToken, nAcq>>
     ELSE \* the slot was just cleared, so the nested call starts a new closure
          /\ nAcq < MaxAcq
          /\ nAcq' = nAcq + 1
          /\ acq' = [acq EXCEPT ![a] = Ended,
                                ![nAcq + 1] = [NewAcq(acq[a].rc + 1) EXCEPT !.solo = FALSE]]
          /\ tokenPromise' = SlotAfterRetry(nAcq + 1)
          /\ ex' = Redirect(a, nAcq + 1)
          /\ UNCHANGED cachedToken

(***************************************************************************)
(* fazerRequisicaoAutenticada (lines 92-136).                              *)
(***************************************************************************)
\* a fresh call, suspended at line 93 (await import('axios'))
FirstCall == [NoCall EXCEPT !.pc = "import"]

\* a caller makes an authenticated request
CallerStart(p) ==
  /\ ex[p].pc \in {"idle", "done"}
  /\ calls < MaxCalls
  /\ calls' = calls + 1
  /\ ex' = [ex EXCEPT ![p] = FirstCall]
  /\ UNCHANGED <<cachedToken, tokenPromise, acq, nAcq, faults, fetchVars>>

\* line 98: const token = await obterToken(), with obterToken's lines 37-89
ExecObterToken(p) ==
  /\ ex[p].pc \in {"import", "sleep"}
  /\ UNCHANGED <<faults, calls, fetchVars>>
  /\ IF HasCachedToken
     THEN \* line 38, then lines 100-111 send the query with it
          /\ ex' = [ex EXCEPT ![p] = SendQuery(ex[p], cachedToken)]
          /\ UNCHANGED <<cachedToken, tokenPromise, acq, nAcq>>
     ELSE IF JoinsPending
     THEN \* line 43
          /\ ex' = [ex EXCEPT ![p].pc = "waitToken", ![p].wait = tokenPromise]
          /\ UNCHANGED <<cachedToken, tokenPromise, acq, nAcq>>
     ELSE \* lines 50-89
          /\ nAcq < MaxAcq
          /\ nAcq' = nAcq + 1
          /\ acq' = [acq EXCEPT ![nAcq + 1] = NewAcq(0)]
          /\ tokenPromise' = nAcq + 1
          /\ ex' = [ex EXCEPT ![p].pc = "waitToken", ![p].wait = nAcq + 1]
          /\ UNCHANGED cachedToken

\* lines 111-135: the query of task p is answered with r
QueryResponse(p, r, body, budget) ==
  /\ ex[p].pc = "query"
  /\ Counted(r, body, budget) => faults < budget
  /\ faults' = IF Counted(r, body, budget) THEN faults + 1 ELSE faults
  /\ UNCHANGED <<tokenPromise, acq, nAcq, calls, fetchVars>>
  /\ LET c == [ex[p] EXCEPT !.resps = Append(@, r), !.wait = 0] IN
     IF r.status = 200
     THEN \* line 112
          /\ ex' = [ex EXCEPT ![p] = [c EXCEPT !.pc = "done", !.out = "ok", !.tok = 0,
                                                 !.data = body]]
          /\ UNCHANGED cachedToken
     ELSE IF IsAuthExpired(r)
     THEN \* lines 116-124
          /\ cachedToken' = 0
          /\ IF AuthRetryAllowed(c.rc)
             THEN ex' = [ex EXCEPT ![p] =
                           [c EXCEPT !.pc = "sleep", !.rc = @ + 1, !.invals = @ + 1,
                                     !.authRetries = @ + 1,
                                     !.delays = Append(@, AUTH_RETRY_DELAY)]]
             ELSE ex' = [ex EXCEPT ![p] =
                           [c EXCEPT !.pc = "done", !.invals = @ + 1, !.out = "sessao", !.tok = 0]]
     ELSE IF TransientRetry(r, c.rc)
     THEN \* lines 129-131
          /\ ex' = [ex EXCEPT ![p] =
                      [c EXCEPT !.pc = "sleep", !.rc = @ + 1,
                                !.delays = Append(@, BackoffDelay(c.rc))]]
          /\ UNCHANGED cachedToken
     ELSE \* line 134
          /\ ex' = [ex EXCEPT ![p] =
                      [c EXCEPT !.pc = "done", !.out = "rethrow", !.err = r, !.tok = 0]]
          /\ UNCHANGED cachedToken

(***************************************************************************)
(* Spec: concurrent callers of fazerRequisicaoAutenticada.                 *)
(***************************************************************************)
Next ==
  \/ \E p \in Procs : CallerStart(p)
  \/ \E p \in Procs : ExecObterToken(p)
  \/ \E a \in Acqs : LoginSend(a)
  \/ \E a \in Acqs, r \in LoginResponses : LoginResponse(a, r, Unbounded)
  \/ \E a \in Acqs : LoginRetry(a)
  \/ \E p \in Procs, r \in QueryResponses : QueryResponse(p, r, NoData, Unbounded)

Spec == Init /\ [][Next]_vars

(***************************************************************************)
(* mapearEntidades (lines 143-164).                                        *)
(*                                                                         *)
(* A raw collection is [meta, fields, entity]: `meta` says whether the     *)
(* metadata block is there, `fields` are its field names in order, and     *)
(* `entity` is [kind, items]: kind "absent" (no entity key), "single" (one *)
(* object, items has one element) or "array".  An item is a sequence of    *)
(* slots, slot i being f(i-1): [present, v], v the value wrapped in `$`;   *)
(* the item NullEntity is a null element.                                  *)
(***************************************************************************)
Slot(v) == [present |-> TRUE, v |-> v]
NoSlot == [present |-> FALSE, v |-> ""]
NullEntity == <<[present |-> FALSE, v |-> "null"]>>

\* the outcome of a function that may throw
Returns(x) == [ok |-> TRUE, val |-> x]
Throws == [ok |-> FALSE, val |-> <<>>]

\* (mutant) every field name becomes a key, an absent slot giving an empty value
CleanObjectAllKeys(fieldNames, rawEntity) ==
  [n \in {fieldNames[i] : i \in DOMAIN fieldNames} |->
     LET i == CHOOSE i \in DOMAIN fieldNames :
                fieldNames[i] = n /\ \A j \in DOMAIN fieldNames : fieldNames[j] = n => j <= i
     IN IF i \in DOMAIN rawEntity /\ rawEntity[i].present THEN rawEntity[i].v ELSE ""]

\* lines 152-162: rawEntity[`f${i}`] is looked up for every field index; a slot
\* that is there gives cleanObject[fieldName] = slot.$
CleanObject(fieldNames, rawEntity) ==
  LET here == {i \in DOMAIN fieldNames : i \in DOMAIN rawEntity /\ rawEntity[i].present}
      idx(n) == CHOOSE i \in here : fieldNames[i] = n /\ \A j \in here : fieldNames[j] = n => j <= i
  IN [n \in {fieldNames[i] : i \in here} |-> rawEntity[idx(n)].v]

\* lines 143-164
mapearEntidades(entities) ==
  IF entities.entity.kind = "absent"
  THEN Returns(<<>>)                                   \* lines 144-146
  ELSE IF ~entities.meta
  THEN Throws                                          \* line 148: metadata is undefined
  ELSE IF \E i \in DOMAIN entities.entity.items : entities.entity.items[i] = NullEntity
  THEN Throws                                          \* line 157: rawEntity is null
  ELSE Returns([i \in DOMAIN entities.entity.items |->
                  CleanObject(entities.fields, entities.entity.items[i])])

Entities(fields, kind, items) ==
  [meta |-> TRUE, fields |-> fields, entity |-> [kind |-> kind, items |-> items]]

(***************************************************************************)
(* SpecMap: mapearEntidades applied to one raw collection, any of the      *)
(* collections up to MaxEntities entities of up to two slots.              *)
(***************************************************************************)
MaxEntities == 2

\* metadata.fields.field: the names, which a malformed answer may repeat
FieldLists == {<<"A">>, <<"A", "B">>, <<"B", "A">>, <<"A", "A">>}

SlotChoices == {NoSlot, Slot("x"), Slot("y")}

\* the elements of entities.entity: objects of one or two slots, or null
RawEntities == (UNION {[1..n -> SlotChoices] : n \in 1..2}) \cup {NullEntity}

\* entities.entity: missing (or null), one object, or an array
EntityValues ==
  {[kind |-> "absent", items |-> <<>>]}
  \cup {[kind |-> "single", items |-> <<x>>] : x \in RawEntities \ {NullEntity}}
  \cup {[kind |-> "array", items |-> s] :
          s \in UNION {[1..m -> RawEntities] : m \in 0..MaxEntities}}

\* line 143: the argument `entities: any`
Collections ==
  {[meta |-> mt, fields |-> fs, entity |-> e] :
     mt \in BOOLEAN, fs \in FieldLists, e \in EntityValues}

InitMap ==
  /\ cachedToken = 0
  /\ tokenPromise = 0
  /\ acq = [a \in Acqs |-> NoAcq]
  /\ nAcq = 0
  /\ ex = [p \in Procs |-> NoCall]
  /\ faults = 0
  /\ calls = 0
  /\ cache = [k \in Keys |-> NoEntry]
  /\ ft = [p \in Procs |-> NoFetch]
  /\ fetches = 0
  /\ erpDown = {}
  /\ mapper \in {[NoMap EXCEPT !.arg = c] : c \in Collections}
  /\ total = NoTotal
  /\ chat = NoChat

\* lines 143-164: the call
MapApply ==
  /\ ~mapper.done
  /\ mapper' = [mapper EXCEPT !.done = TRUE, !.out = mapearEntidades(mapper.arg)]
  /\ UNCHANGED <<tokenVars, ex, faults, calls, cache, ft, fetches, erpDown, total, chat>>

NextMap == MapApply

SpecMap == InitMap /\ [][NextMap]_vars

\* a 200 answer's body: with responseBody.entities or without
Body(entities) == [hasEntities |-> TRUE, entities |-> entities]

\* lines 411-417, 456: res?.responseBody?.entities ? mapearEntidades(...) : []
\* res is Null when the query failed and its catch returned null
Null == [null |-> TRUE]
MapResult(res) ==
  IF res = Null THEN Returns(<<>>)
  ELSE IF ~res.hasEntities THEN Returns(<<>>)
  ELSE mapearEntidades(res.entities)

(***************************************************************************)
(* parseFloat, as line 496 applies it to VLRNOTA.  A text is the sequence  *)
(* of its characters.  parseFloat reads the longest prefix that is a       *)
(* decimal literal (sign, digits, a point, digits) and gives NaN when      *)
(* there is none; the value is kept in hundredths, the texts of the model  *)
(* having at most two decimals, no exponent and no leading blank.          *)
(***************************************************************************)
Digits == <<"0", "1", "2", "3", "4", "5", "6", "7", "8", "9">>
IsDigit(ch) == \E i \in DOMAIN Digits : Digits[i] = ch
DigitValue(ch) == (CHOOSE i \in DOMAIN Digits : Digits[i] = ch) - 1

\* how many digits the text has from position i on
RECURSIVE DigitRun(_, _)
DigitRun(t, i) ==
  IF i \in DOMAIN t /\ IsDigit(t[i]) THEN 1 + DigitRun(t, i + 1) ELSE 0

\* the number written by the n digits that begin at position i
RECURSIVE NumberAt(_, _, _)
NumberAt(t, i, n) ==
  IF n = 0 THEN 0 ELSE NumberAt(t, i, n - 1) * 10 + DigitValue(t[i + n - 1])

\* [nan, v, used]: NaN or the value in hundredths, and the characters read
parseFloat(t) ==
  LET sign == IF 1 \in DOMAIN t /\ t[1] \in {"-", "+"} THEN 1 ELSE 0
      n1 == DigitRun(t, sign + 1)
      dot == (sign + n1 + 1) \in DOMAIN t /\ t[sign + n1 + 1] = "."
      n2 == IF dot THEN DigitRun(t, sign + n1 + 2) ELSE 0
      frac == IF n2 = 0 THEN 0
              ELSE IF n2 = 1 THEN NumberAt(t, sign + n1 + 2, 1) * 10
              ELSE NumberAt(t, sign + n1 + 2, 2)
      abs == NumberAt(t, sign + 1, n1) * 100 + frac
  IN IF n1 = 0 /\ n2 = 0
     THEN [nan |-> TRUE, v |-> 0, used |-> 0]
     ELSE [nan |-> FALSE,
           v |-> IF sign = 1 /\ t[1] = "-" THEN 0 - abs ELSE abs,
           used |-> sign + n1 + (IF dot THEN 1 + n2 ELSE 0)]

Text100p50 == <<"1", "0", "0", ".", "5", "0">>
TextNotANumber == <<"n", "o", "t", "-", "a", "-", "n", "u", "m", "b", "e", "r">>

(***************************************************************************)
(* The answers of the ERP to the dataset queries.                          *)
(***************************************************************************)
\* the decimal text of a user id, as line 190 interpolates it and as the ERP
\* writes it in CODUSUARIO
UserText(u) == IF u = 7 THEN "7" ELSE IF u = 8 THEN "8" ELSE "9"
\* a user of the ERP who never calls
OtherUser == 9

\* the lead of user u
LeadRow(u) == <<Slot("10"), Slot("Lead A"), Slot(UserText(u))>>
\* another lead, owned by OtherUser
LeadRowOther == <<Slot("11"), Slot("Lead B"), Slot(UserText(OtherUser))>>

\* the rows of AD_LEADS that satisfy the criteria of the leads query: with the
\* clause CODUSUARIO = u the lead of u, without it the leads of all users
LeadsOne(criteria) ==
  IF \E i \in DOMAIN criteria : criteria[i][1] = "CODUSUARIO ="
  THEN LET u == (CHOOSE i \in DOMAIN criteria : criteria[i][1] = "CODUSUARIO =") IN
       Entities(<<"CODLEAD", "NOME", "CODUSUARIO">>, "single", <<LeadRow(criteria[u][2])>>)
  ELSE Entities(<<"CODLEAD", "NOME", "CODUSUARIO">>, "array", <<LeadRow(7), LeadRowOther>>)
LeadsNone == Entities(<<"CODLEAD", "NOME", "CODUSUARIO">>, "absent", <<>>)
AtividadesTwo ==
  Entities(<<"CODATIVIDADE", "CODLEAD", "TIPO">>, "array",
           << <<Slot("1"), Slot("10"), Slot("NOTA")>>, <<Slot("2"), NoSlot, Slot("EMAIL")>> >>)
FunisOne == Entities(<<"CODFUNIL", "NOME">>, "array", << <<Slot("3"), Slot("Vendas")>> >>)
EstagiosOne ==
  Entities(<<"CODESTAGIO", "CODFUNIL">>, "array", << <<Slot("4"), Slot("3")>> >>)
PedidosTwo ==
  Entities(<<"NUNOTA", "VLRNOTA">>, "array",
           << <<Slot("1"), Slot(Text100p50)>>, <<Slot("2"), Slot(TextNotANumber)>> >>)
ProdutosOne == Entities(<<"CODPROD", "DESCRPROD">>, "single", << <<Slot("5"), Slot("Caneta")>> >>)
ClientesOne == Entities(<<"CODPARC", "NOMEPARC">>, "array", << <<Slot("6"), Slot("ACME")>> >>)
\* an entity list whose metadata block is missing
ClientesNoMeta == [ClientesOne EXCEPT !.meta = FALSE]
ProdutosLeadsOne ==
  Entities(<<"CODITEM", "CODLEAD", "CODPROD">>, "array",
           << <<Slot("8"), Slot("10"), Slot("5")>> >>)

\* what a 200 of the query for dataset d may carry; criteria is the criteria of
\* the leads query
BodiesOf(d, criteria) ==
  CASE d = 1 -> {Body(LeadsOne(criteria)), Body(LeadsNone)}
    [] d = 2 -> {Body(AtividadesTwo)}
    [] d = 3 -> {Body(FunisOne)}
    [] d = 4 -> {Body(EstagiosOne)}
    [] d = 5 -> {Body(PedidosTwo)}
    [] d = 6 -> {Body(ProdutosOne), NoData}
    [] d = 7 -> {Body(ClientesOne), Body(ClientesNoMeta)}
    [] OTHER -> {Body(ProdutosLeadsOne)}

(***************************************************************************)
(* buscarDadosAnalise (lines 166-526).                                     *)
(***************************************************************************)
\* (mutant) the clause of the user is added for administrators too
CriteriaLeadsAlwaysUser(filtro, userId, isAdmin) ==
  << <<"DATA_CRIACAO BETWEEN", formatarDataParaSankhya(filtro.dataInicio),
       formatarDataParaSankhya(filtro.dataFim)>>,
     <<"ATIVO =", "S">>, <<"CODUSUARIO =", userId>> >>

\* lines 188-191: the criteria of the leads query, clause by clause
CriteriaLeads(filtro, userId, isAdmin) ==
  << <<"DATA_CRIACAO BETWEEN", formatarDataParaSankhya(filtro.dataInicio),
       formatarDataParaSankhya(filtro.dataFim)>>,
     <<"ATIVO =", "S">> >>
  \o (IF ~isAdmin THEN << <<"CODUSUARIO =", userId>> >> ELSE <<>>)

\* parseFloat(p.VLRNOTA) || 0 in hundredths (line 496): a missing VLRNOTA is
\* undefined, which parseFloat turns into NaN; NaN and 0 are falsy
ParseFloatOrZero(rec) ==
  IF "VLRNOTA" \notin DOMAIN rec THEN 0
  ELSE LET f == parseFloat(rec["VLRNOTA"]) IN
       IF f.nan \/ f.v = 0 THEN 0 ELSE f.v

RECURSIVE SumVlrNota(_)
SumVlrNota(pedidos) ==
  IF pedidos = <<>> THEN 0
  ELSE ParseFloatOrZero(Head(pedidos)) + SumVlrNota(Tail(pedidos))

(***************************************************************************)
(* SpecSum: line 496 applied to one list of mapped order records, any list *)
(* of up to MaxPedidos records whose VLRNOTA is one of ValueTexts or is    *)
(* missing.                                                                *)
(***************************************************************************)
MaxPedidos == 2

\* VLRNOTA as the ERP may send it: numerals, and texts that are not numerals
ValueTexts ==
  { <<"0">>, <<"1">>, <<"1", "5">>, <<"1", ".", "5">>, <<".", "5">>, <<"1", ".">>,
    <<"-", "1">>, <<"-", ".", "5">>, <<"+", "1">>, <<"1", ".", "5", "0">>,
    <<"x">>, <<"-">>, <<".">>, <<"x", "1">>, <<"1", "x">>, <<"1", ",", "5">>,
    <<"1", ".", "5", "x">>, Text100p50, TextNotANumber }

\* a mapped order record, with VLRNOTA or without
OrderRecords ==
  {[NUNOTA |-> "1"]} \cup {[NUNOTA |-> "1", VLRNOTA |-> t] : t \in ValueTexts}

InitSum ==
  /\ cachedToken = 0
  /\ tokenPromise = 0
  /\ acq = [a \in Acqs |-> NoAcq]
  /\ nAcq = 0
  /\ ex = [p \in Procs |-> NoCall]
  /\ faults = 0
  /\ calls = 0
  /\ cache = [k \in Keys |-> NoEntry]
  /\ ft = [p \in Procs |-> NoFetch]
  /\ fetches = 0
  /\ erpDown = {}
  /\ mapper = NoMap
  /\ total \in {[NoTotal EXCEPT !.pedidos = s] :
                  s \in UNION {[1..n -> OrderRecords] : n \in 0..MaxPedidos}}
  /\ chat = NoChat

\* line 496: resultado.pedidos.reduce((sum, p) => sum + (parseFloat(p.VLRNOTA) || 0), 0)
SumApply ==
  /\ ~total.done
  /\ total' = [total EXCEPT !.done = TRUE, !.out = SumVlrNota(total.pedidos)]
  /\ UNCHANGED <<tokenVars, ex, faults, calls, cache, ft, fetches, erpDown, mapper, chat>>

NextSum == SumApply

SpecSum == InitSum /\ [][NextSum]_vars

\* new Date().toISOString() of lines 475 and 509: the time of the n-th call of
\* the behaviour plus dt
Instant(n, dt) == <<n, dt>>

\* lines 464-476: the object that is stored in the cache
Resultado(m, produtosLeads, filtro, ts) ==
  [ leads |-> m[1], produtosLeads |-> produtosLeads, estagiosFunis |-> m[4], funis |-> m[3],
    atividades |-> m[2], pedidos |-> m[5], produtos |-> m[6], clientes |-> m[7],
    financeiro |-> <<>>, filtro |-> filtro, timestamp |-> ts ]

\* lines 496-521: the object that is returned after a miss
ReturnValue(r, ts) ==
  [ leads |-> r.leads, produtosLeads |-> r.produtosLeads, atividades |-> r.atividades,
    pedidos |-> r.pedidos, produtos |-> r.produtos, clientes |-> r.clientes,
    financeiro |-> <<>>, funis |-> r.funis, estagiosFunis |-> r.estagiosFunis,
    timestamp |-> ts, filtro |-> r.filtro,
    totalLeads |-> Len(r.leads), totalAtividades |-> Len(r.atividades),
    totalPedidos |-> Len(r.pedidos), totalProdutos |-> Len(r.produtos),
    totalClientes |-> Len(r.clientes), totalFinanceiro |-> 0,
    valorTotalPedidos |-> SumVlrNota(r.pedidos), valorTotalFinanceiro |-> 0,
    valorRecebido |-> 0, valorPendente |-> 0 ]

\* (mutant) a cache hit returns the cached lists under a new timestamp
ReturnOnHitRestamped(cached) == [cached EXCEPT !.timestamp = <<0, 0>>]

\* lines 176-178: what a cache hit returns
ReturnOnHit(cached) == cached

\* lines 276-377: the catch of a base query turns its failure into null
CaughtResult(c) == IF c.out = "ok" THEN c.data ELSE Null

\* a call of buscarDadosAnalise(filtro, userId, isAdmin) begins: lines 172-175
FetchStart(p, filtro, userId, isAdmin) ==
  /\ ft[p].pc \in {"idle", "returned", "thrown"}
  /\ fetches < MaxFetches
  /\ fetches' = fetches + 1
  /\ ft' = [ft EXCEPT ![p] =
              [NoFetch EXCEPT !.pc = "cacheGet", !.filtro = filtro, !.userId = userId,
                              !.isAdmin = isAdmin, !.nAcq0 = nAcq,
                              !.prevKey = IF ft[p].pc = "returned"
                                          THEN CacheKey(ft[p].userId, ft[p].filtro) ELSE <<>>,
                              !.prevRet = IF ft[p].pc = "returned" THEN ft[p].ret ELSE NoEntry]]
  /\ UNCHANGED <<tokenVars, mapper, total, chat, ex, faults, calls, cache, erpDown>>

\* a call of buscarDadosAnalise that has missed the cache and not yet returned
Building(f) == f.pc \in {"query", "cacheSet"}

\* (mutant) a call does not build a snapshot while another call builds the one
\* of the same key
CacheMissUnlessBusy(p, cached) ==
  /\ cached = NoEntry
  /\ \A q \in Procs \ {p} :
       ~(Building(ft[q]) /\ CacheKey(ft[q].userId, ft[q].filtro)
                             = CacheKey(ft[p].userId, ft[p].filtro))

\* line 176: if (cached) is false
CacheMiss(p, cached) == cached = NoEntry

\* lines 175-276: the cache answers; on a hit the call returns, on a miss it builds
\* the payloads and submits the leads query
FetchCacheGet(p) ==
  /\ ft[p].pc = "cacheGet"
  /\ LET cached == CacheGet(cache, CacheKey(ft[p].userId, ft[p].filtro)) IN
     IF ~CacheMiss(p, cached)
     THEN /\ ft' = [ft EXCEPT ![p].pc = "returned", ![p].hit = TRUE,
                              ![p].ret = ReturnOnHit(cached)]
          /\ UNCHANGED ex
     ELSE /\ ft' = [ft EXCEPT ![p].pc = "query", ![p].d = 1,
                              ![p].criteria =
                                CriteriaLeads(ft[p].filtro, ft[p].userId, ft[p].isAdmin)]
          /\ ex' = [ex EXCEPT ![p] = FirstCall]
  /\ UNCHANGED <<tokenVars, mapper, total, chat, faults, calls, cache, fetches, erpDown>>

\* (mutant) the snapshot is stored under a key that leaves the dates out
StoreResultadoOtherKey(p, f, m, produtosLeads) ==
  /\ cache' = CacheSet(cache, CacheKey(f.userId, Jan),
                       Resultado(m, produtosLeads, f.filtro, Instant(fetches, 0)))
  /\ ft' = [ft EXCEPT ![p] =
              [f EXCEPT !.pc = "cacheSet", !.sets = @ + 1, !.ttl = CACHE_TTL,
                        !.resultado = Resultado(m, produtosLeads, f.filtro, Instant(fetches, 0))]]

\* (mutant) a snapshot with failed datasets is not stored
StoreResultadoCompleteOnly(p, f, m, produtosLeads) ==
  /\ cache' = IF \E d \in DOMAIN f.res : f.res[d] = Null
              THEN cache
              ELSE CacheSet(cache, CacheKey(f.userId, f.filtro),
                            Resultado(m, produtosLeads, f.filtro, Instant(fetches, 0)))
  /\ ft' = [ft EXCEPT ![p] =
              [f EXCEPT !.pc = "cacheSet", !.sets = @ + 1, !.ttl = CACHE_TTL,
                        !.resultado = Resultado(m, produtosLeads, f.filtro, Instant(fetches, 0))]]

\* lines 464-479: resultado is built and handed to redisCacheService.set
StoreResultado(p, f, m, produtosLeads) ==
  /\ cache' = CacheSet(cache, CacheKey(f.userId, f.filtro),
                       Resultado(m, produtosLeads, f.filtro, Instant(fetches, 0)))
  /\ ft' = [ft EXCEPT ![p] =
              [f EXCEPT !.pc = "cacheSet", !.sets = @ + 1, !.ttl = CACHE_TTL,
                        !.resultado = Resultado(m, produtosLeads, f.filtro, Instant(fetches, 0))]]

\* the mapped lists of lines 411-417, or the throw of mapearEntidades
MapAll(res) ==
  IF \A d \in BaseDatasets : MapResult(res[d]).ok
  THEN Returns([d \in BaseDatasets |-> MapResult(res[d]).val])
  ELSE Throws

\* (mutant) only the leads query has a catch
HasCatchLeadsOnly(d) == d = 1

\* lines 276-377: each of the seven base queries has .catch(err => null); the
\* query of line 455 has none
HasCatch(d) == d \in BaseDatasets

\* (mutant) the lead-products query is sent whatever the leads are
HasLeadsAlways(leads) == TRUE

\* line 433: if (leads.length > 0)
HasLeads(leads) == Len(leads) > 0

\* (mutant) the next statement runs while the call is pausing before a retry
QueryEndedOrPausing(c) == c.pc \in {"done", "sleep"}

\* `await fazerRequisicaoAutenticada(...)` goes on when the promise of the call,
\* retries included (lines 121 and 131 return the promise of the retry), is settled
QueryEnded(c) == c.pc = "done"

\* (mutant) a dataset whose query failed is asked for again
NextDatasetRetryFailed(d, c) == IF c.out = "ok" THEN d + 1 ELSE d

\* lines 276-357: after the await of one base query, caught or not, the next
\* statement builds and submits the query of the next dataset
NextDataset(d, c) == d + 1

\* the call of fazerRequisicaoAutenticada for dataset ft[p].d has ended:
\* lines 276-479 up to the next await
FetchQueryDone(p) ==
  /\ ft[p].pc = "query"
  /\ QueryEnded(ex[p])
  /\ LET c == ex[p]
         f == [ft[p] EXCEPT !.reqs = @ + c.sent,
                            !.authError = @ \/ c.out \in {"authfail", "sessao"}]
     IN
     IF c.out # "ok" /\ ~HasCatch(f.d)
     THEN \* the failure leaves through the catch of line 522, which throws it on
          /\ ft' = [ft EXCEPT ![p] = [f EXCEPT !.pc = "thrown"]]
          /\ ex' = [ex EXCEPT ![p] = NoCall]
          /\ UNCHANGED cache
     ELSE IF f.d < 7
     THEN \* the next base query is submitted
          /\ ft' = [ft EXCEPT ![p] = [f EXCEPT !.res = Append(@, CaughtResult(c)),
                                              !.d = NextDataset(@, c)]]
          /\ ex' = [ex EXCEPT ![p] = FirstCall]
          /\ UNCHANGED cache
     ELSE IF f.d = 7
     THEN LET res == Append(f.res, CaughtResult(c))
              m == MapAll(res)
          IN
          IF ~m.ok
          THEN \* a throw of mapearEntidades (lines 411-417) leaves the same way
               /\ ft' = [ft EXCEPT ![p] = [f EXCEPT !.pc = "thrown", !.res = res]]
               /\ ex' = [ex EXCEPT ![p] = NoCall]
               /\ UNCHANGED cache
          ELSE IF HasLeads(m.val[1])
          THEN \* lines 433-455: the lead-products query
               /\ ft' = [ft EXCEPT ![p] = [f EXCEPT !.res = res, !.d = LeadProducts]]
               /\ ex' = [ex EXCEPT ![p] = FirstCall]
               /\ UNCHANGED cache
          ELSE /\ StoreResultado(p, [f EXCEPT !.res = res], m.val, <<>>)
               /\ ex' = [ex EXCEPT ![p] = NoCall]
     ELSE \* line 456: the answer of the lead-products query is mapped
          LET pl == MapResult(CaughtResult(c)) IN
          IF ~pl.ok
          THEN /\ ft' = [ft EXCEPT ![p] = [f EXCEPT !.pc = "thrown"]]
               /\ ex' = [ex EXCEPT ![p] = NoCall]
               /\ UNCHANGED cache
          ELSE /\ StoreResultado(p, f, MapAll(f.res).val, pl.val)
               /\ ex' = [ex EXCEPT ![p] = NoCall]
  /\ UNCHANGED <<tokenVars, mapper, total, chat, faults, calls, fetches, erpDown>>

\* lines 479-521: the cache write is done; the value with the metrics and a new
\* timestamp is returned
FetchReturn(p, dt) ==
  /\ ft[p].pc = "cacheSet"
  /\ ft' = [ft EXCEPT ![p].pc = "returned",
                       ![p].ret = ReturnValue(ft[p].resultado, Instant(fetches, dt))]
  /\ UNCHANGED <<tokenVars, mapper, total, chat, ex, faults, calls, cache, fetches, erpDown>>

\* the entry of key k reaches the end of its time to live
CacheExpire(k) ==
  /\ CacheGet(cache, k) # NoEntry
  /\ cache' = CacheSet(cache, k, NoEntry)
  /\ UNCHANGED <<tokenVars, mapper, total, chat, ex, faults, calls, ft, fetches, erpDown>>

\* a behaviour of SpecFetch has refused datasets or anomalies, not both
FaultBudget == IF erpDown = {} THEN MaxFetchFaults ELSE 0

\* the ERP answers the query of the dataset task p is at: a dataset that is down
\* is refused with a 400, another one is served or hit by an anomaly
DatasetResponse(p) ==
  /\ ft[p].pc = "query"
  /\ IF ft[p].d \in erpDown
     THEN QueryResponse(p, R400, NoData, FaultBudget)
     ELSE \/ \E body \in BodiesOf(ft[p].d, ft[p].criteria) : QueryResponse(p, R200, body, FaultBudget)
          \/ \E r \in {R401, R502} : QueryResponse(p, r, NoData, FaultBudget)

(***************************************************************************)
(* SpecFetch: one task calls buscarDadosAnalise again and again; the set   *)
(* of datasets the ERP refuses is fixed for the behaviour.                 *)
(***************************************************************************)
\* the answers of the login endpoint in SpecFetch
FetchLoginResponses ==
  {LoginAnswer(R200, TRUE), LoginAnswer(R401, FALSE), LoginAnswer(R500, FALSE)}

InitFetch ==
  /\ cachedToken = 0
  /\ tokenPromise = 0
  /\ acq = [a \in Acqs |-> NoAcq]
  /\ nAcq = 0
  /\ ex = [p \in Procs |-> NoCall]
  /\ faults = 0
  /\ calls = 0
  /\ cache = [k \in Keys |-> NoEntry]
  /\ ft = [p \in Procs |-> NoFetch]
  /\ fetches = 0
  /\ erpDown \in (SUBSET BaseDatasets) \cup {{LeadProducts}}
  /\ mapper = NoMap
  /\ total = NoTotal
  /\ chat = NoChat

NextFetch ==
  \/ \E p \in Fetchers, a \in FetchArgs : FetchStart(p, a[1], a[2], a[3])
  \/ \E p \in Fetchers : FetchCacheGet(p)
  \/ \E p \in Fetchers : ExecObterToken(p)
  \/ \E a \in Acqs : LoginSend(a)
  \/ \E a \in Acqs, r \in FetchLoginResponses : LoginResponse(a, r, FaultBudget)
  \/ \E a \in Acqs : LoginRetry(a)
  \/ \E p \in Fetchers : DatasetResponse(p)
  \/ \E p \in Fetchers : FetchQueryDone(p)
  \/ \E p \in Fetchers, dt \in {0, 1} : FetchReturn(p, dt)
  \/ \E k \in Keys : CacheExpire(k)

SpecFetch == InitFetch /\ [][NextFetch]_vars

(***************************************************************************)
(* SpecConc: two tasks call buscarDadosAnalise once each, for the same     *)
(* key and at the same time.  The cache starts empty and no entry expires; *)
(* the login succeeds and the ERP serves every dataset, or refuses one.    *)
(***************************************************************************)
InitConc ==
  /\ cachedToken = 0
  /\ tokenPromise = 0
  /\ acq = [a \in Acqs |-> NoAcq]
  /\ nAcq = 0
  /\ ex = [p \in Procs |-> NoCall]
  /\ faults = 0
  /\ calls = 0
  /\ cache = [k \in Keys |-> NoEntry]
  /\ ft = [p \in Procs |-> NoFetch]
  /\ fetches = 0
  /\ erpDown \in {{}, {2}, {LeadProducts}}
  /\ mapper = NoMap
  /\ total = NoTotal
  /\ chat = NoChat

\* the one call of task p
FetchOnce(p) ==
  /\ ft[p].pc = "idle"
  /\ FetchStart(p, Jan, 7, FALSE)

\* the ERP answers the query of the dataset task p is at: a 400 for a dataset
\* that is down, a well-formed body for another one
ConcResponse(p) ==
  /\ ft[p].pc = "query"
  /\ IF ft[p].d \in erpDown
     THEN QueryResponse(p, R400, NoData, 0)
     ELSE \E body \in BodiesOf(ft[p].d, ft[p].criteria) : QueryResponse(p, R200, body, 0)

NextConc ==
  \/ \E p \in Procs : FetchOnce(p)
  \/ \E p \in Procs : FetchCacheGet(p)
  \/ \E p \in Procs : ExecObterToken(p)
  \/ \E a \in Acqs : LoginSend(a)
  \/ \E a \in Acqs : LoginResponse(a, LoginAnswer(R200, TRUE), 0)
  \/ \E p \in Procs : ConcResponse(p)
  \/ \E p \in Procs : FetchQueryDone(p)
  \/ \E p \in Procs : FetchReturn(p, 0)

SpecConc == InitConc /\ [][NextConc]_vars

(***************************************************************************)
(* SpecLive: task 1 calls buscarDadosAnalise once and task 2 calls         *)
(* fazerRequisicaoAutenticada once, at any time.  Every request is         *)
(* answered or times out, every timer fires and every continuation that    *)
(* is ready runs: weak fairness of each step but the starts of the calls.  *)
(***************************************************************************)
Callers == Procs \ Fetchers

\* the one call of buscarDadosAnalise of task p, for a user who is not an
\* administrator or for one who is
FetchOnceOf(p) ==
  /\ ft[p].pc = "idle"
  /\ \E admin \in BOOLEAN : FetchStart(p, Jan, 7, admin)

\* the one call of fazerRequisicaoAutenticada of task p
CallOnce(p) ==
  /\ calls = 0
  /\ CallerStart(p)

\* the ERP answers the query of caller p
CallerResponse(p) ==
  \E r \in QueryResponses : QueryResponse(p, r, NoData, FaultBudget)

\* the login endpoint answers the login of acquisition a
LoginAnswered(a) ==
  \E r \in FetchLoginResponses : LoginResponse(a, r, FaultBudget)

\* the steps that follow from a call once it is made
Progress ==
  \/ \E p \in Fetchers : FetchCacheGet(p)
  \/ \E p \in Procs : ExecObterToken(p)
  \/ \E a \in Acqs : LoginSend(a)
  \/ \E a \in Acqs : LoginAnswered(a)
  \/ \E a \in Acqs : LoginRetry(a)
  \/ \E p \in Fetchers : DatasetResponse(p)
  \/ \E p \in Callers : CallerResponse(p)
  \/ \E p \in Fetchers : FetchQueryDone(p)
  \/ \E p \in Fetchers : FetchReturn(p, 0)

NextLive ==
  \/ \E p \in Fetchers : FetchOnceOf(p)
  \/ \E p \in Callers : CallOnce(p)
  \/ Progress

\* while a step of Progress can be taken, one is taken; as each call is made
\* once and its retries are bounded, no task can be passed over for ever
Fairness == WF_vars(Progress)

SpecLive == Init /\ [][NextLive]_vars /\ Fairness

(***************************************************************************)
(* The chat route (src/app/api/gemini/chat/route.ts).                      *)
(***************************************************************************)
MaxChats == 2

\* a filter whose dates are empty texts
SemDatas == [dataInicio |-> <<>>, dataFim |-> <<>>]

\* the bodies of the requests: history is missing, empty, or holds the turns
\* made so far; filtro is missing (written SemDatas) or has both dates
Historicos == {<<>>, <<"user", "assistant">>, <<"user", "assistant", "user", "assistant">>}
ChatBodies ==
  { [hasHistory |-> h, history |-> hs, filtro |-> f, role |-> r] :
      h \in BOOLEAN, hs \in Historicos, f \in {Jan, SemDatas}, r \in {"admin", "vendedor"} }

\* lines 30-42: the filter of the frontend when it has both dates, else the
\* last ninety days
FiltroUsado(filtroFrontend) ==
  IF filtroFrontend.dataInicio # <<>> /\ filtroFrontend.dataFim # <<>>
  THEN filtroFrontend ELSE Ultimos90

\* lines 63-91: what analisarDadosDoSistema returns from the snapshot d; the
\* snapshots have no financial records, so their three sums are 0
DadosSistema(d, userName, filtro) ==
  [ leads |-> d.leads, produtosLeads |-> d.produtosLeads, atividades |-> d.atividades,
    pedidos |-> d.pedidos, produtos |-> d.produtos, clientes |-> d.clientes,
    financeiro |-> d.financeiro, funis |-> d.funis, estagiosFunis |-> d.estagiosFunis,
    userName |-> userName, filtro |-> filtro,
    totalLeads |-> Len(d.leads), totalAtividades |-> Len(d.atividades),
    totalPedidos |-> Len(d.pedidos), totalProdutos |-> Len(d.produtos),
    totalClientes |-> Len(d.clientes), totalFinanceiro |-> Len(d.financeiro),
    valorTotalPedidos |-> SumVlrNota(d.pedidos), valorTotalFinanceiro |-> 0,
    valorRecebido |-> 0, valorPendente |-> 0 ]

\* lines 92-117: what the catch of analisarDadosDoSistema returns
DadosNoCatch(userName) ==
  [ leads |-> <<>>, produtosLeads |-> <<>>, atividades |-> <<>>, pedidos |-> <<>>,
    produtos |-> <<>>, clientes |-> <<>>, financeiro |-> <<>>, funis |-> <<>>,
    estagiosFunis |-> <<>>, userName |-> userName, filtro |-> SemDatas,
    totalLeads |-> 0, totalAtividades |-> 0, totalPedidos |-> 0, totalProdutos |-> 0,
    totalClientes |-> 0, totalFinanceiro |-> 0, valorTotalPedidos |-> 0,
    valorTotalFinanceiro |-> 0, valorRecebido |-> 0, valorPendente |-> 0 ]

\* (mutant) every prompt is taken for the first one
IsFirstPromptAlways(history) == TRUE

\* line 229: if (history.length === 0)
IsFirstPrompt(history) == Len(history) = 0

\* lines 180-231 and 394-396: a request arrives.  Without a history the spread
\* of line 219 throws and the catch of line 428 answers 500; with an empty one
\* analisarDadosDoSistema is entered and pauses at the import of line 47; with
\* turns in it the message goes out as it came
ChatPost(b) ==
  /\ chat.pc \in {"idle", "done"}
  /\ chat.n < MaxChats
  /\ LET c == [NoChat EXCEPT !.n = chat.n + 1, !.history = b.history,
                             !.fetches0 = fetches, !.isAdmin = (b.role = "admin"),
                             !.filtro = FiltroUsado(b.filtro)] IN
     chat' = IF ~b.hasHistory THEN [c EXCEPT !.pc = "done", !.status = 500, !.history = <<>>]
             ELSE IF IsFirstPrompt(b.history) THEN [c EXCEPT !.pc = "analisar"]
             ELSE [c EXCEPT !.pc = "send"]
  /\ UNCHANGED <<tokenVars, ex, faults, calls, cache, ft, fetches, erpDown, mapper, total>>

\* line 50: analisarDadosDoSistema calls buscarDadosAnalise(filtro, userId, isAdmin)
ChatFetch(p) ==
  /\ chat.pc = "analisar"
  /\ fetches = chat.fetches0
  /\ FetchStart(p, chat.filtro, 7, chat.isAdmin)

\* lines 50-117 and 233-392: the call returned or threw; analisarDadosDoSistema
\* returns its object and the route puts it before the message
ChatContext(p) ==
  /\ chat.pc = "analisar"
  /\ fetches > chat.fetches0
  /\ ft[p].pc \in {"returned", "thrown"}
  /\ chat' = [chat EXCEPT !.pc = "send", !.threw = (ft[p].pc = "thrown"),
                          !.withContext = TRUE,
                          !.dadosSistema = IF ft[p].pc = "returned"
                                           THEN DadosSistema(ft[p].ret, "Ana", chat.filtro)
                                           ELSE DadosNoCatch("Ana")]
  /\ UNCHANGED <<tokenVars, ex, faults, calls, cache, ft, fetches, erpDown, mapper, total>>

\* lines 398-434: the message is sent to the model, which starts to answer
\* (200, a stream) or fails (the catch of line 428 answers 500)
ChatSend(ok) ==
  /\ chat.pc = "send"
  /\ chat' = [chat EXCEPT !.pc = "done", !.status = IF ok THEN 200 ELSE 500]
  /\ UNCHANGED <<tokenVars, ex, faults, calls, cache, ft, fetches, erpDown, mapper, total>>

(***************************************************************************)
(* SpecChat: the chat route handles up to MaxChats requests, one after the *)
(* other, for user 7.  The cache starts empty; the login succeeds and the  *)
(* ERP serves every dataset, or refuses one of them for the whole          *)
(* behaviour.                                                              *)
(***************************************************************************)
NextChat ==
  \/ \E b \in ChatBodies : ChatPost(b)
  \/ \E p \in Fetchers : ChatFetch(p)
  \/ \E p \in Fetchers : FetchCacheGet(p)
  \/ \E p \in Fetchers : ExecObterToken(p)
  \/ \E a \in Acqs : LoginSend(a)
  \/ \E a \in Acqs : LoginResponse(a, LoginAnswer(R200, TRUE), 0)
  \/ \E p \in Fetchers : ConcResponse(p)
  \/ \E p \in Fetchers : FetchQueryDone(p)
  \/ \E p \in Fetchers : FetchReturn(p, 0)
  \/ \E p \in Fetchers : ChatContext(p)
  \/ \E ok \in BOOLEAN : ChatSend(ok)

SpecChat == InitConc /\ [][NextChat]_vars

(***************************************************************************)
(* Properties of the token and of the authenticated request.               *)
(***************************************************************************)
InFlightLogins == {a \in Acqs : acq[a].st = "inflight"}
AuthAnswers(c) == {i \in DOMAIN c.resps : IsAuthExpired(c.resps[i])}

\* C1: in every reachable state at most one login request is in flight, on the
\* first attempt and on the retries after a timeout or an HTTP 500 alike.
C1_SingleFlight == Cardinality(InFlightLogins) <= 1

\* C2: when the login of an acquisition that started with no token cached and no
\* other acquisition pending succeeds on its first attempt, no other login
\* request was issued since it started, every caller that asked for the token
\* meanwhile receives its token, and that token is the cached one.
LoginSucceeds(a) ==
  /\ acq[a].st = "inflight" /\ acq'[a].st = "ended"
  /\ \E p \in Procs : ex[p].pc = "waitToken" /\ ex[p].wait = a /\ ex'[p].pc = "query"

C2_OneLoginForConcurrentCallers ==
  [][\A a \in Acqs :
       (acq[a].rc = 0 /\ acq[a].solo /\ LoginSucceeds(a))
       => /\ nAcq' = a
          /\ cachedToken' = a
          /\ \A p \in Procs :
               ex[p].pc = "waitToken"
               => ex[p].wait = a /\ ex'[p].pc = "query" /\ ex'[p].tok = a]_vars

\* C2 happens: both callers joined the first acquisition and hold its token
C2_Witness ==
  /\ nAcq = 1 /\ acq[1].st = "ended" /\ cachedToken = 1
  /\ Cardinality(Procs) >= 2
  /\ \A p \in Procs : ex[p].pc = "query" /\ ex[p].wait = 1 /\ ex[p].tok = 1

\* C3: the first 401/403 a call receives, at whatever attempt, clears the cached
\* token and is followed by exactly one retry of the whole call.
C3_FirstAuthFailureRetried ==
  \A p \in Procs :
    AuthAnswers(ex[p]) # {} => ex[p].invals >= 1 /\ ex[p].authRetries = 1

\* C4: a call whose first attempt is answered 401 clears the token once for that
\* answer and retries once with another token; a later 401 clears the token again
\* but is never retried, and when the retry itself is answered 401 the call fails
\* with the session-expired error after two query requests.
C4_AuthExpiryRecovery ==
  \A p \in Procs :
    LET c == ex[p] IN
    (Len(c.resps) >= 1 /\ c.resps[1] = R401)
    => /\ c.authRetries = 1
       /\ c.invals = Cardinality(AuthAnswers(c))
       /\ Len(c.resps) = 1 => c.invals = 1
       /\ (c.sent = 2 /\ c.pc = "query") => c.changed
       /\ (Len(c.resps) >= 2 /\ c.resps[2] = R401)
          => /\ c.pc = "done" /\ c.out = "sessao"
             /\ Len(c.resps) = 2 /\ c.sent = 2

\* C4 happens: 401, then 401 on the retry; two query requests, two invalidations
C4_Witness ==
  \E p \in Procs :
    /\ ex[p].resps = <<R401, R401>> /\ ex[p].out = "sessao"
    /\ ex[p].sent = 2 /\ ex[p].invals = 2 /\ ex[p].authRetries = 1

\* C5: a call whose every query attempt times out sends at most
\* 1 + MAX_RETRIES = 3 query requests, and the third timeout is thrown to the caller.
C5_TimeoutRetryBound ==
  \A p \in Procs :
    LET c == ex[p] IN
    (Len(c.resps) >= 1 /\ \A i \in DOMAIN c.resps : c.resps[i] = RTimeout)
    => /\ Len(c.resps) <= 1 + MAX_RETRIES
       /\ c.sent <= 1 + MAX_RETRIES
       /\ Len(c.resps) = 1 + MAX_RETRIES
          => c.pc = "done" /\ c.out = "rethrow" /\ c.err = RTimeout
       /\ (c.pc = "done" /\ c.out # "authfail") => Len(c.resps) = 1 + MAX_RETRIES

\* C5 happens: three timeouts, then the timeout is thrown
C5_Witness ==
  \E p \in Procs :
    /\ ex[p].resps = <<RTimeout, RTimeout, RTimeout>>
    /\ ex[p].pc = "done" /\ ex[p].out = "rethrow"

(***************************************************************************)
(* Properties of buscarDadosAnalise.                                       *)
(***************************************************************************)
\* the base datasets whose query failed in call f, as far as it has come
FailedDatasets(f) == {d \in 1..Len(f.res) : f.res[d] = Null}
\* the call f built a snapshot after a cache miss
BuiltSnapshot(f) == f.pc \in {"cacheSet", "returned"} /\ ~f.hit
\* the snapshot of such a call: the stored object, then the returned one
SnapshotOf(f) == IF f.pc = "returned" THEN f.ret ELSE f.resultado

\* C6: a call on a cache miss whose seven base dataset queries all failed throws;
\* it builds and returns no snapshot.
C6_ThrowsWhenEveryQueryFails ==
  \A p \in Fetchers :
    (Len(ft[p].res) = 7 /\ FailedDatasets(ft[p]) = BaseDatasets) => ~BuiltSnapshot(ft[p])

\* C7: a call one of whose dataset queries ended with an authentication error
\* (token acquisition rejected, or session expired) throws; it builds and
\* returns no snapshot.
C7_AuthErrorIsFatal ==
  \A p \in Fetchers : ft[p].authError => ~BuiltSnapshot(ft[p])

\* C8: when a non-empty proper subset F of the seven base queries is refused and
\* the other queries succeed, the call does not throw; a call throws only for
\* the failure of the lead-products query or for a throw of the mapper; and the
\* snapshot of a call with failed queries F has the empty list for every dataset
\* of F and the mapped records of its response for every other dataset.
C8_PartialFailureResilience ==
  \A p \in Fetchers :
    LET f == ft[p]
        F == FailedDatasets(f)
    IN
    /\ (erpDown # {} /\ erpDown # BaseDatasets /\ erpDown \subseteq BaseDatasets)
       => f.pc # "thrown"
    /\ f.pc = "thrown" => (f.d = LeadProducts \/ (Len(f.res) = 7 /\ ~MapAll(f.res).ok))
    /\ (BuiltSnapshot(f) /\ F # {} /\ F # BaseDatasets)
       => \A d \in BaseDatasets :
            LET got == SnapshotOf(f)[DatasetNames[d]] IN
            /\ d \in F => got = <<>>
            /\ d \notin F => got = MapResult(f.res[d]).val
            /\ (d \notin F /\ f.res[d].hasEntities /\ f.res[d].entities.entity.kind # "absent")
               => /\ Len(got) = Len(f.res[d].entities.entity.items)
                  /\ Len(got) >= 1

\* C8 happens: the activities query is refused, the others are served, and the
\* call returns the lead and the two orders with an empty activity list
C8_Witness ==
  \E p \in Fetchers :
    /\ erpDown = {2}
    /\ ft[p].pc = "returned" /\ ~ft[p].hit
    /\ ft[p].ret.atividades = <<>>
    /\ Len(ft[p].ret.leads) = 1 /\ Len(ft[p].ret.pedidos) = 2 /\ Len(ft[p].ret.produtosLeads) = 1

\* C9: the step of a call that finds its key in the cache returns the cached
\* value itself; the call has sent no query and started no login, written
\* nothing to the cache, and the step leaves the token, the pending-acquisition
\* slot, the acquisitions, the requests and the cache as they were.
C9_CacheHitFrame ==
  [][\A p \in Fetchers :
       LET k == CacheKey(ft[p].userId, ft[p].filtro) IN
       (ft[p].pc = "cacheGet" /\ ft'[p].pc # "cacheGet" /\ CacheGet(cache, k) # NoEntry)
       => /\ ft'[p].pc = "returned"
          /\ ft'[p].ret = CacheGet(cache, k)
          /\ ft'[p].reqs = 0 /\ ft'[p].sets = 0
          /\ nAcq' = ft'[p].nAcq0
          /\ UNCHANGED <<cachedToken, tokenPromise, acq, nAcq, ex, cache>>]_vars

\* C9 happens: a call was served from the cache while a token was cached
C9_Witness ==
  \E p \in Fetchers :
    /\ ft[p].pc = "returned" /\ ft[p].hit
    /\ ft[p].ret = CacheGet(cache, CacheKey(ft[p].userId, ft[p].filtro))
    /\ Len(ft[p].ret.leads) = 1
    /\ cachedToken # 0

\* C10: a call that follows a returned call of the same key and is served from
\* the cache sends no query, starts no login, and returns a value equal to the
\* one the call before it returned.
C10_SecondCallDeepEqual ==
  \A p \in Fetchers :
    LET f == ft[p] IN
    (f.pc = "returned" /\ f.hit /\ f.prevKey = CacheKey(f.userId, f.filtro))
    => /\ f.reqs = 0 /\ nAcq = f.nAcq0
       /\ f.ret = f.prevRet

\* C11: every snapshot returned to a call made with isAdmin = false holds only
\* leads of that call's user, whether it was built by the call or served from
\* the cache.
C11_LeadVisibilityIsolation ==
  \A p \in Fetchers :
    (ft[p].pc = "returned" /\ ~ft[p].isAdmin)
    => \A i \in DOMAIN ft[p].ret.leads :
         ft[p].ret.leads[i]["CODUSUARIO"] = UserText(ft[p].userId)

\* the clauses of the leads criteria that do not depend on isAdmin, written out
\* for the dates of filtro: day, month, year
DateClauses(filtro) ==
  << <<"DATA_CRIACAO BETWEEN",
       <<filtro.dataInicio[3], filtro.dataInicio[2], filtro.dataInicio[1]>>,
       <<filtro.dataFim[3], filtro.dataFim[2], filtro.dataFim[1]>> >>,
     <<"ATIVO =", "S">> >>

\* C12: on a cache miss the criteria of the leads query are the date range and
\* ATIVO = 'S', followed by CODUSUARIO = userId exactly when isAdmin is false.
C12_UserClauseIffNotAdmin ==
  \A p \in Fetchers :
    LET f == ft[p] IN
    f.d >= 1
    => /\ SubSeq(f.criteria, 1, 2) = DateClauses(f.filtro)
       /\ ~f.isAdmin => f.criteria = DateClauses(f.filtro) \o << <<"CODUSUARIO =", f.userId>> >>
       /\ f.isAdmin => f.criteria = DateClauses(f.filtro)
       /\ (\E i \in DOMAIN f.criteria : f.criteria[i][1] = "CODUSUARIO =") <=> ~f.isAdmin

\* C12 happens: the leads query of an administrator's call was sent without the
\* clause of the user and answered with the leads of two users
C12_Witness ==
  \E p \in Fetchers :
    /\ ft[p].isAdmin /\ ft[p].d >= 2 /\ Len(ft[p].criteria) = 2
    /\ ft[p].res[1] # Null /\ ft[p].res[1].hasEntities
    /\ Len(ft[p].res[1].entities.entity.items) = 2

\* C13: a call on a cache miss works on one dataset at a time in the order
\* leads, activities, funnels, funnel-stages, orders, products, clients,
\* lead-products: its only request in progress is the one of its current
\* dataset, all datasets before the current one have their result, it moves to
\* the next dataset only when the request of the current one, retries included,
\* has ended, and a query is sent only for the current dataset.
C13_Sequential ==
  [][\A p \in Fetchers :
       /\ ft[p].pc = "query"
          => /\ ft[p].d \in 1..8
             /\ Len(ft[p].res) = (IF ft[p].d = LeadProducts THEN 7 ELSE ft[p].d - 1)
       /\ (ft[p].pc = "query" /\ ft'[p].d # ft[p].d)
          => /\ ex[p].pc = "done"
             /\ ft'[p].pc = "query" => ft'[p].d = ft[p].d + 1
             /\ ft'[p].pc = "query" => ex'[p] = FirstCall
       /\ (ft[p].pc = "query" /\ ft'[p].pc # "query") => ex[p].pc = "done"
       /\ ex'[p].sent > ex[p].sent => (ft[p].pc = "query" /\ ft'[p].d = ft[p].d)]_vars

\* C13 happens: the seven base datasets have their results with one request
\* each, and the request for the lead-products is in flight
C13_Witness ==
  \E p \in Fetchers :
    /\ ft[p].pc = "query" /\ ft[p].d = LeadProducts /\ Len(ft[p].res) = 7
    /\ ft[p].reqs = 7 /\ ex[p].pc = "query" /\ ex[p].sent = 1

\* C14: the lead-products query is the current one only after the seven base
\* datasets gave a non-empty list of mapped leads; a snapshot built on a miss
\* without leads was built without that query and has an empty produtosLeads,
\* one with leads was built after it; and when that query ends in a failure, the
\* call throws in that step, with no value returned and no cache write.
C14_LeadProducts ==
  [][\A p \in Fetchers :
       LET f == ft[p] IN
       /\ (f.pc = "query" /\ f.d = LeadProducts)
          => Len(f.res) = 7 /\ Len(MapResult(f.res[1]).val) > 0
       /\ BuiltSnapshot(f)
          => /\ Len(SnapshotOf(f).leads) = 0
                => (f.d = 7 /\ SnapshotOf(f).produtosLeads = <<>>)
             /\ Len(SnapshotOf(f).leads) > 0 => f.d = LeadProducts
       /\ (f.pc = "query" /\ f.d = LeadProducts /\ ex[p].pc = "done" /\ ex[p].out # "ok"
           /\ ft'[p] # f)
          => /\ ft'[p].pc = "thrown"
             /\ ft'[p].ret = NoEntry /\ ft'[p].sets = 0
             /\ cache' = cache
             /\ CacheGet(cache', CacheKey(f.userId, f.filtro)) = NoEntry]_vars

\* C14 happens: the lead-products query was refused and the call threw without
\* a cache write
C14_Witness ==
  \E p \in Fetchers :
    /\ erpDown = {LeadProducts}
    /\ ft[p].pc = "thrown" /\ ft[p].d = LeadProducts /\ ft[p].sets = 0
    /\ Len(MapResult(ft[p].res[1]).val) > 0
    /\ CacheGet(cache, CacheKey(ft[p].userId, ft[p].filtro)) = NoEntry

\* C15: the step that ends the queries of a call on a miss writes the snapshot
\* under the call's own key with a time to live of 1800 seconds; a call that
\* returns after a miss has made exactly that one write before it returns, a
\* call served from the cache or a call that throws has made none, and the
\* cache changes in no other step but an expiry.
C15_OneCacheSet ==
  [][/\ \A p \in Fetchers :
          LET f == ft[p]
              g == ft'[p]
              k == CacheKey(f.userId, f.filtro)
          IN
          /\ (f.pc = "query" /\ g.pc = "cacheSet")
             => /\ cache' = [cache EXCEPT ![k] = g.resultado]
                /\ g.sets = 1 /\ g.ttl = 1800
          /\ (g.pc = "returned" /\ ~g.hit) => (g.sets = 1 /\ g.ttl = 1800)
          /\ (g.pc = "returned" /\ ~g.hit /\ f.pc # "returned") => f.pc = "cacheSet"
          /\ (g.pc = "returned" /\ g.hit) => g.sets = 0
          /\ g.pc = "thrown" => g.sets = 0
     /\ cache' # cache
        => \/ \E p \in Fetchers : ft[p].pc = "query" /\ ft'[p].pc = "cacheSet"
           \/ \E k \in Keys : cache[k] # NoEntry /\ cache' = [cache EXCEPT ![k] = NoEntry]]_vars

\* C15 happens: a call for February returned after a miss with one write, and
\* the entry of its key is the snapshot it built
C15_Witness ==
  \E p \in Fetchers :
    /\ ft[p].pc = "returned" /\ ~ft[p].hit /\ ft[p].filtro = Fev
    /\ ft[p].sets = 1 /\ ft[p].ttl = 1800
    /\ CacheGet(cache, CacheKey(ft[p].userId, ft[p].filtro)) = ft[p].resultado

(***************************************************************************)
(* Properties of obterToken and of the retries.                            *)
(***************************************************************************)
\* the login answer r is a failure
LoginFailed(r) == ~(r.status = 200 /\ r.hasToken)

\* C16: in every step in which a login is answered with a failure, the login is
\* retried (the acquisition pauses for a retry) if and only if the failure is a
\* timeout or a 5xx answer and fewer than three retries were made; otherwise
\* the acquisition ends there.
C16_LoginRetryClassification ==
  [][\A a \in Acqs, r \in LoginResponses :
       (LoginResponse(a, r, Unbounded) /\ LoginFailed(r))
       => /\ acq'[a].st = "backoff" <=> (IsTransient(r) /\ acq[a].rc < 3)
          /\ acq'[a].st # "backoff" => acq'[a].st = "ended"]_vars

\* C17: no login is the fifth of its acquisition; a login answered with a
\* timeout or a 500 is retried while fewer than three retries were made, and
\* the failure of the fourth login ends the acquisition: no token is cached, the
\* slot is empty and every caller that awaited it fails with the
\* authentication error.
C17_LoginRetryBound ==
  [][/\ \A a \in Acqs : acq[a].rc <= 3
     /\ \A a \in Acqs, r \in {LoginAnswer(R500, FALSE), LoginAnswer(RTimeout, FALSE)} :
          LoginResponse(a, r, Unbounded)
          => IF acq[a].rc < 3
             THEN acq'[a].st = "backoff" /\ nAcq' = nAcq
             ELSE /\ acq'[a].st = "ended"
                  /\ nAcq' = nAcq
                  /\ cachedToken' = 0 /\ tokenPromise' = 0
                  /\ \A p \in Procs :
                       (ex[p].pc = "waitToken" /\ ex[p].wait = a)
                       => (ex'[p].pc = "done" /\ ex'[p].out = "authfail")]_vars

\* C17 happens: the only call made awaited four logins, all answered with a
\* timeout or a 500, and failed with the authentication error before it sent
\* any query
C17_Witness ==
  /\ calls = 1 /\ nAcq = 4 /\ cachedToken = 0 /\ tokenPromise = 0
  /\ \A a \in 1..4 : acq[a].st = "ended"
  /\ \E p \in Procs : ex[p].pc = "done" /\ ex[p].out = "authfail" /\ ex[p].sent = 0

\* the pauses of a call before its retries after a timeout or a 5xx answer
IsTransientDelay(x) == x # 500
TransientDelays(c) == SelectSeq(c.delays, IsTransientDelay)

\* C18: within one call the pause before the k-th retry after a timeout or a
\* 5xx answer is 1000 ms times k, whether or not a retry after a 401/403 came
\* before it in the call.
C18_LinearBackoff ==
  \A p \in Procs :
    \A k \in DOMAIN TransientDelays(ex[p]) : TransientDelays(ex[p])[k] = 1000 * k

\* C19: a call of obterToken made while a token is cached gives the caller
\* that token at once: the caller sends its query with it, no acquisition is
\* started, and cachedToken, the slot and the acquisitions stay as they are;
\* the call of obterToken a login retry makes (line 73) behaves the same: the
\* waiting callers get the cached token, which stays, and no login is started.
C19_CachedTokenReturned ==
  [][/\ \A p \in Procs :
          (ex[p].pc \in {"import", "sleep"} /\ cachedToken # 0 /\ ex'[p] # ex[p])
          => /\ ex'[p].pc = "query" /\ ex'[p].tok = cachedToken
             /\ ex'[p].sent = ex[p].sent + 1
             /\ UNCHANGED <<cachedToken, tokenPromise, acq, nAcq>>
     /\ \A a \in Acqs :
          (acq[a].st = "backoff" /\ acq'[a].st # "backoff" /\ cachedToken # 0)
          => /\ nAcq' = nAcq /\ cachedToken' = cachedToken
             /\ \A p \in Procs :
                  (ex[p].pc = "waitToken" /\ ex[p].wait = a)
                  => (ex'[p].pc = "query" /\ ex'[p].tok = cachedToken)]_vars

\* C19 happens: a caller that never waited for a login sent its query with the
\* cached token
C19_Witness ==
  \E p \in Procs :
    /\ cachedToken # 0 /\ nAcq = 1
    /\ ex[p].pc = "query" /\ ex[p].tok = cachedToken /\ ex[p].wait = 0 /\ ex[p].sent = 1

\* C20: a call of obterToken made while no token is cached and no acquisition
\* is pending starts a new acquisition, which posts a login; and when a login
\* succeeds its token, which no earlier login returned, is the cached one and
\* the one its callers go on with.
C20_ReacquireAfterInvalidation ==
  [][/\ \A p \in Procs :
          (ex[p].pc \in {"import", "sleep"} /\ cachedToken = 0 /\ ex'[p] # ex[p]
           /\ \A a \in Acqs : ~Pending(a))
          => /\ nAcq' = nAcq + 1
             /\ acq'[nAcq'].st = "import" /\ acq'[nAcq'].rc = 0
             /\ tokenPromise' = nAcq'
             /\ ex'[p].pc = "waitToken" /\ ex'[p].wait = nAcq'
     /\ \A a \in Acqs :
          LoginResponse(a, LoginAnswer(R200, TRUE), Unbounded)
          => /\ cachedToken' = a
             /\ cachedToken # a
             /\ \A p \in Procs :
                  (ex[p].pc = "waitToken" /\ ex[p].wait = a)
                  => (ex'[p].pc = "query" /\ ex'[p].tok = a)]_vars

\* C20 happens: a call was answered 401 with token 1, which cleared the token;
\* its retry started login 2, and the call goes on with token 2, the cached one
C20_Witness ==
  \E p \in Procs :
    /\ ex[p].resps = <<R401>> /\ ex[p].invals = 1
    /\ nAcq = 2 /\ acq[2].st = "ended" /\ cachedToken = 2
    /\ ex[p].pc = "query" /\ ex[p].tok = 2 /\ ex[p].changed

Malformed(c) ==
  /\ c.entity.kind # "absent"
  /\ \/ ~c.meta
     \/ \E j \in DOMAIN c.entity.items : c.entity.items[j] = NullEntity

\* C22: mapearEntidades returns a sequence for every collection and never
\* throws, and for an absent or malformed collection it returns the empty
\* sequence.
C22_MapperTotal ==
  mapper.done
  => /\ mapper.out.ok
     /\ (mapper.arg.entity.kind = "absent" \/ Malformed(mapper.arg)) => mapper.out.val = <<>>

\* the field names of a collection are pairwise different
DistinctNames(fields) ==
  \A i, j \in DOMAIN fields : fields[i] = fields[j] => i = j

\* a collection with its metadata, with distinct field names and without null
\* entities
WellFormed(c) == c.meta /\ DistinctNames(c.fields) /\ ~Malformed(c)

\* C23: for a well-formed collection mapearEntidades returns one record per
\* entity, in the order of the entities; record j has under the name n_i the
\* value of slot f_i of entity j when that slot is present, has no key n_i when
\* it is absent, and has no other keys.
C23_MapperRecords ==
  (mapper.done /\ WellFormed(mapper.arg))
  => LET items == mapper.arg.entity.items
         fields == mapper.arg.fields
         val == mapper.out.val
     IN /\ mapper.out.ok
        /\ Len(val) = Len(items)
        /\ \A j \in DOMAIN items :
             /\ DOMAIN val[j] \subseteq {fields[i] : i \in DOMAIN fields}
             /\ \A i \in DOMAIN fields :
                  IF i \in DOMAIN items[j] /\ items[j][i].present
                  THEN fields[i] \in DOMAIN val[j] /\ val[j][fields[i]] = items[j][i].v
                  ELSE fields[i] \notin DOMAIN val[j]

\* C23 happens: an array of two entities under the names B, A was mapped; the
\* first entity has only slot f0, the second has both
C23_Witness ==
  /\ mapper.done
  /\ mapper.arg = Entities(<<"B", "A">>, "array",
                           <<(<<Slot("x"), NoSlot>>), (<<Slot("y"), Slot("x")>>)>>)
  /\ mapper.out = Returns(<<[B |-> "x"], [A |-> "x", B |-> "y"]>>)

\* the count metrics a snapshot carries, each with the list it counts
CountMetrics ==
  { <<"totalLeads", "leads">>, <<"totalAtividades", "atividades">>,
    <<"totalPedidos", "pedidos">>, <<"totalProdutos", "produtos">>,
    <<"totalClientes", "clientes">> }

\* C24: every snapshot a fetch returns, built by the call or served from the
\* cache, carries the five count metrics, each equal to the length of its list.
C24_CountMetrics ==
  \A p \in Fetchers :
    ft[p].pc = "returned"
    => \A mt \in CountMetrics :
         /\ mt[1] \in DOMAIN ft[p].ret
         /\ ft[p].ret[mt[1]] = Len(ft[p].ret[mt[2]])

\* a text that is a decimal numeral from its first character to its last
IsNumeral(t) == ~parseFloat(t).nan /\ parseFloat(t).used = Len(t)

\* what the claim counts for a record: the value of a numeral, zero otherwise
NumericValueOrZero(rec) ==
  IF "VLRNOTA" \in DOMAIN rec /\ IsNumeral(rec["VLRNOTA"])
  THEN parseFloat(rec["VLRNOTA"]).v ELSE 0

RECURSIVE SumNumeric(_)
SumNumeric(pedidos) ==
  IF pedidos = <<>> THEN 0
  ELSE NumericValueOrZero(Head(pedidos)) + SumNumeric(Tail(pedidos))

\* C25: valorTotalPedidos is the sum, over the order records, of the numeric
\* value of VLRNOTA, a record whose VLRNOTA is missing or is not a numeral
\* counting zero.
C25_OrderValueSum ==
  total.done => total.out = SumNumeric(total.pedidos)

\* a step that task p or the login endpoint can take
CanGoOn(p) ==
  \/ ENABLED FetchCacheGet(p)
  \/ ENABLED ExecObterToken(p)
  \/ ENABLED ConcResponse(p)
  \/ ENABLED FetchQueryDone(p)
  \/ ENABLED FetchReturn(p, 0)
  \/ \E a \in Acqs : Pending(a)

\* C26: fetches of one key are not deduplicated. A call that reads the cache
\* while the key has no entry misses and submits its own leads query, whatever
\* another call is doing; a call that comes to its cache write has asked for
\* all seven base datasets itself (one query at least for each that did not
\* fail) and replaces whatever entry the key has with its own snapshot; a call throws only for its own lead-products
\* failure or mapper throw; and a call under way can always go on by a step of
\* its own or of the login endpoint, never waiting for the other call.
C26_NoDeduplication ==
  [][\A p \in Procs :
       LET f == ft[p]
           g == ft'[p]
           k == CacheKey(f.userId, f.filtro)
       IN
       /\ (f.pc = "cacheGet" /\ g # f /\ CacheGet(cache, k) = NoEntry)
          => /\ g.pc = "query" /\ ~g.hit /\ g.d = 1 /\ g.reqs = 0
             /\ ex'[p] = FirstCall
       /\ (f.pc = "query" /\ g.pc = "cacheSet")
          => /\ Len(g.res) = 7 /\ g.sets = 1
             /\ g.reqs >= 7 - Cardinality(FailedDatasets(g))
             /\ cache' = [cache EXCEPT ![k] = g.resultado]
       /\ (f.pc # "thrown" /\ g.pc = "thrown")
          => (g.d = LeadProducts \/ (Len(g.res) = 7 /\ ~MapAll(g.res).ok))
       /\ (f.pc \in {"cacheGet", "query", "cacheSet"}) => CanGoOn(p)]_vars

\* C26 happens: both tasks missed the same key, each sent its own queries and
\* wrote once; the entry is the snapshot of task 2, which differs from the one
\* task 1 had written
C26_Witness ==
  /\ \A p \in Procs :
       /\ ft[p].pc = "returned" /\ ~ft[p].hit /\ ft[p].sets = 1 /\ ft[p].reqs >= 7
       /\ ft[p].filtro = Jan /\ ft[p].userId = 7
  /\ ft[1].resultado # ft[2].resultado
  /\ CacheGet(cache, CacheKey(7, Jan)) = ft[2].resultado

\* the order of the phases of a call, in one step of task p: cache check, then
\* either a hit and the return, or a miss, the queries, the cache write and
\* the return; a throw leaves from the queries
PhaseOrder(p) ==
  LET f == ft[p]
      g == ft'[p]
  IN
  g # f
  => /\ f.pc \in {"idle", "returned", "thrown"} => g.pc = "cacheGet"
     /\ f.pc = "cacheGet"
        => \/ g.pc = "returned" /\ g.hit /\ g.reqs = 0 /\ g.sets = 0
           \/ g.pc = "query" /\ ~g.hit /\ g.d = 1 /\ g.res = <<>>
     /\ f.pc = "query" => g.pc \in {"query", "cacheSet", "thrown"}
     /\ f.pc = "cacheSet" => g.pc = "returned" /\ ~g.hit /\ g.sets = 1

\* the cache write of a call comes after all its mapping: the seven base
\* collections are mapped, and so is the lead-products collection when there
\* are leads; the stored lists are the mapped ones
WriteAfterMapping(p) ==
  LET f == ft[p]
      g == ft'[p]
  IN
  (f.pc = "query" /\ g.pc = "cacheSet")
  => /\ Len(g.res) = 7 /\ MapAll(g.res).ok
     /\ \A d \in BaseDatasets : g.resultado[DatasetNames[d]] = MapResult(g.res[d]).val
     /\ Len(g.resultado.leads) > 0 => f.d = LeadProducts
     /\ cache'[CacheKey(f.userId, f.filtro)] = g.resultado

\* C27 as the spec states it: the phases of a call follow one another in the
\* order above, the cache write comes after all mapping and before the return,
\* and no dataset query is sent once the mapping (lines 411-417) has begun.
C27_NoQueryAfterMapping ==
  [][\A p \in Fetchers :
       /\ PhaseOrder(p)
       /\ WriteAfterMapping(p)
       /\ ex'[p].sent > ex[p].sent => (ft[p].pc = "query" /\ Len(ft[p].res) < 7)]_vars

\* C27, amended: the phases of a call follow one another in the order above
\* and the cache write comes after all mapping and before the return; once the
\* seven base collections are mapped no base dataset is queried, and the only
\* query sent after that is the lead-products one, sent when the mapped leads
\* are not empty.
C27_PhaseOrder ==
  [][\A p \in Fetchers :
       /\ PhaseOrder(p)
       /\ WriteAfterMapping(p)
       /\ ex'[p].sent > ex[p].sent
          => /\ ft[p].pc = "query"
             /\ Len(ft[p].res) = 7
                => /\ ft[p].d = LeadProducts
                   /\ Len(MapResult(ft[p].res[1]).val) > 0]_vars

\* C27 happens: a call missed, queried the seven base datasets, mapped them,
\* queried and mapped the lead-products, wrote the cache and returned
C27_Witness ==
  \E p \in Fetchers :
    /\ ft[p].pc = "returned" /\ ~ft[p].hit /\ ft[p].sets = 1
    /\ ft[p].d = LeadProducts /\ ft[p].reqs = 8
    /\ Len(ft[p].ret.produtosLeads) > 0

\* C28: buscarDadosAnalise submits each dataset to fazerRequisicaoAutenticada
\* at most once in a call: a submission is for dataset 1 at the start of the
\* miss and for a later dataset than the current one afterwards; the result a
\* dataset got, null for a failed query, is never replaced; and when the
\* request of the current dataset has ended in a failure the call throws, goes
\* on to a later dataset or goes on to the cache write.
C28_NoOrchestratorRetry ==
  [][\A p \in Fetchers :
       LET f == ft[p]
           g == ft'[p]
       IN
       /\ (ex'[p].pc = "import" /\ ex[p].pc # "import")
          => /\ g.pc = "query" /\ g.d \in 1..8
             /\ f.pc = "query" => g.d > f.d
             /\ f.pc # "query" => g.d = 1
       /\ (f.pc = "query" /\ g.pc \in {"query", "cacheSet"})
          => /\ Len(g.res) >= Len(f.res)
             /\ \A d \in DOMAIN f.res : g.res[d] = f.res[d]
       /\ (f.pc = "query" /\ ex[p].pc = "done" /\ ex[p].out # "ok" /\ g # f)
          => (g.pc = "thrown" \/ g.pc = "cacheSet" \/ (g.pc = "query" /\ g.d > f.d))]_vars

\* C28 happens: the ERP refused the activities and found no leads; the call
\* returned a snapshot after seven requests, one per base dataset
C28_Witness ==
  \E p \in Fetchers :
    /\ ft[p].pc = "returned" /\ ~ft[p].hit
    /\ FailedDatasets(ft[p]) = {2} /\ ft[p].reqs = 7
    /\ ft[p].ret.atividades = <<>> /\ ft[p].ret.leads = <<>>

\* C29: a login answered 200 with neither bearerToken nor token ends the
\* acquisition in that step, at whatever retry count: no pause and no further
\* login follow, cachedToken and the slot are null, and every caller that
\* awaited the acquisition fails with the authentication error that says the
\* token was not found.
C29_MissingTokenIsFatal ==
  [][\A a \in Acqs :
       LoginResponse(a, LoginAnswer(R200, FALSE), Unbounded)
       => /\ acq'[a].st = "ended"
          /\ nAcq' = nAcq
          /\ \A b \in Acqs : acq'[b].st \in {"import", "backoff"} => acq'[b] = acq[b]
          /\ cachedToken' = 0 /\ tokenPromise' = 0
          /\ \A p \in Procs :
               (ex[p].pc = "waitToken" /\ ex[p].wait = a)
               => /\ ex'[p].pc = "done" /\ ex'[p].out = "authfail" /\ ex'[p].sent = ex[p].sent
                  /\ ex'[p].msg = "Token não encontrado na resposta de login."]_vars

\* C29 happens: the first login of the only call was answered 200 without a
\* token; the call failed before sending any query, with one login made and no
\* token cached
C29_Witness ==
  /\ calls = 1 /\ nAcq = 1 /\ acq[1].st = "ended"
  /\ cachedToken = 0 /\ tokenPromise = 0
  /\ \E p \in Procs :
       /\ ex[p].pc = "done" /\ ex[p].out = "authfail" /\ ex[p].sent = 0
       /\ ex[p].msg = "Token não encontrado na resposta de login."

\* C30: a 401 answer to a query that was sent with token T clears
\* cachedToken only when cachedToken is still T; when another token has been
\* cached in the meantime the answer leaves it in place.
C30_InvalidateOnlyOwnToken ==
  [][\A p \in Procs :
       QueryResponse(p, R401, NoData, Unbounded)
       => cachedToken' = (IF cachedToken = ex[p].tok THEN 0 ELSE cachedToken)]_vars

\* C31: whatever mix of 401, timeout and 5xx answers a call receives, it sends
\* at most three query requests: every retry, after a 401 or after a timeout
\* or 5xx, adds one to the same retryCount, which never passes 2, and each
\* attempt sends at most one query.
C31_AtMostThreeQueries ==
  \A p \in Procs :
    /\ ex[p].sent <= 3
    /\ ex[p].rc <= MAX_RETRIES
    /\ ex[p].sent <= ex[p].rc + 1
    /\ Len(ex[p].delays) = ex[p].rc

\* C31 happens: a call was answered 401, then 502, then with a timeout; it sent
\* three queries and ended by rethrowing the timeout
C31_Witness ==
  \E p \in Procs :
    /\ ex[p].resps = <<R401, R502, RTimeout>>
    /\ ex[p].sent = 3 /\ ex[p].authRetries = 1
    /\ ex[p].pc = "done" /\ ex[p].out = "rethrow"

\* C32: the slot never holds a settled promise: when tokenPromise is not null
\* it is the promise of an acquisition that is still under way (about to post
\* its login, with its login in flight, or pausing before a retry); so in every
\* state with no acquisition under way the slot is null, after a failed
\* acquisition too, and the next call of obterToken starts a new acquisition.
C32_SlotNullWhenIdle ==
  /\ tokenPromise # 0 => (tokenPromise \in Acqs /\ Pending(tokenPromise))
  /\ (\A a \in Acqs : ~Pending(a)) => tokenPromise = 0

\* C32 happens: acquisition 1 failed and its caller got the authentication
\* error; a later call of obterToken started acquisition 2, which succeeded;
\* nothing is under way and the slot is null
C32_Witness ==
  /\ nAcq = 2 /\ acq[1].st = "ended" /\ acq[2].st = "ended"
  /\ tokenPromise = 0 /\ cachedToken = 2
  /\ \E p, q \in Procs :
       /\ ex[p].pc = "done" /\ ex[p].out = "authfail" /\ ex[p].sent = 0
       /\ ex[q].pc = "query" /\ ex[q].tok = 2 /\ ex[q].sent = 1

\* C33: a cached token is cleared only by the step in which a query is
\* answered 401 or 403: no step of an acquisition, be it the answer to a login
\* or the end of a pause, turns a cached token into null.
C33_TokenKeptUntilAuthExpiry ==
  [][(cachedToken # 0 /\ cachedToken' = 0)
     => \E p \in Procs :
          /\ ex[p].pc = "query"
          /\ Len(ex'[p].resps) = Len(ex[p].resps) + 1
          /\ IsAuthExpired(ex'[p].resps[Len(ex'[p].resps)])]_vars

\* C34: a snapshot in which failed datasets were replaced by empty lists is
\* cached like any other: the step that ends the queries of a call with failed
\* datasets F stores, under the call's key and for 1800 seconds, a snapshot
\* whose lists for F are empty; a call that finds an entry under its key
\* returns it without sending a query; so a call served from the cache has
\* empty lists for every dataset the ERP refuses, and the same lists as the
\* call of the same key that returned before it.
C34_DegradedSnapshotCached ==
  [][\A p \in Fetchers :
       LET f == ft[p]
           g == ft'[p]
           k == CacheKey(f.userId, f.filtro)
       IN
       /\ (f.pc = "query" /\ g.pc = "cacheSet" /\ FailedDatasets(g) # {})
          => /\ CacheGet(cache', k) = g.resultado /\ g.ttl = 1800
             /\ \A d \in FailedDatasets(g) : CacheGet(cache', k)[DatasetNames[d]] = <<>>
       /\ (f.pc = "cacheGet" /\ g # f /\ CacheGet(cache, k) # NoEntry)
          => /\ g.pc = "returned" /\ g.hit /\ g.reqs = 0 /\ ex'[p] = ex[p]
             /\ \A d \in DOMAIN DatasetNames :
                  g.ret[DatasetNames[d]] = CacheGet(cache, k)[DatasetNames[d]]
       /\ (g.pc = "returned" /\ g.hit)
          => /\ \A d \in erpDown \cap BaseDatasets : g.ret[DatasetNames[d]] = <<>>
             /\ g.prevKey = CacheKey(g.userId, g.filtro)
                => \A d \in DOMAIN DatasetNames :
                     g.ret[DatasetNames[d]] = g.prevRet[DatasetNames[d]]]_vars

\* C34 happens: the ERP refuses the activities; a call returned a snapshot with
\* no activities after a miss, and the next call of the task, for the same key,
\* was served from the cache: no activities, no query
C34_Witness ==
  \E p \in Fetchers :
    /\ erpDown = {2}
    /\ ft[p].pc = "returned" /\ ft[p].hit /\ ft[p].reqs = 0
    /\ ft[p].prevKey = CacheKey(ft[p].userId, ft[p].filtro)
    /\ ft[p].prevRet.atividades = <<>> /\ ft[p].ret.atividades = <<>>
    /\ Len(ft[p].ret.leads) >= 1

\* task p is inside a call: its call of buscarDadosAnalise has not returned or
\* thrown, or its call of fazerRequisicaoAutenticada has not ended (among them
\* the callers that wait for an acquisition)
Underway(p) ==
  \/ ft[p].pc \in {"cacheGet", "query", "cacheSet"}
  \/ ex[p].pc \in {"import", "waitToken", "query", "sleep"}

C36_AuthFailureEndsWaiters ==
  [][\A a \in Acqs, r \in LoginResponses :
       ( /\ LoginResponse(a, r, Unbounded)
         /\ ~(r.status = 200 /\ r.hasToken)
         /\ ~LoginRetryable(LoginError(r), acq[a].rc) )
       => \A p \in Procs :
            (ex[p].pc = "waitToken" /\ ex[p].wait = a)
            => /\ ex'[p].pc = "done" /\ ex'[p].out = "authfail"
               /\ ex'[p].msg = ErrorMsg(r)
               /\ ex'[p].sent = ex[p].sent /\ ex'[p].resps = ex[p].resps
               /\ ex'[p].rc = ex[p].rc /\ ex'[p].delays = ex[p].delays]_vars

\* C36 happens: two calls awaited one acquisition, whose login timed out four
\* times; both ended with the timeout message, neither sent a query nor
\* retried
C36_Witness ==
  /\ nAcq = 4 /\ \A a \in Acqs : acq[a].st = "ended"
  /\ \A p \in Procs :
       /\ ex[p].pc = "done" /\ ex[p].out = "authfail"
       /\ ex[p].msg = "Timeout ao conectar com Sankhya"
       /\ ex[p].sent = 0 /\ ex[p].rc = 0 /\ ex[p].delays = <<>>
  /\ calls = 2 /\ cachedToken = 0 /\ tokenPromise = 0

\* C37: buscarDadosAnalise is called only by a request whose history is
\* empty, at most once for it; a request whose history has turns ends with
\* no call made and with its message as it came; and when the call made for
\* a first message throws, the route goes on to send the message with a
\* context whose lists are all empty and whose metrics are all zero.
C37_FetchOnlyOnFirstPrompt ==
  [][/\ fetches' # fetches
        => /\ chat.pc = "analisar" /\ chat.history = <<>>
           /\ fetches = chat.fetches0 /\ fetches' = fetches + 1
           /\ chat' = chat
     /\ chat'.history # <<>>
        => /\ fetches' = chat'.fetches0
           /\ ~chat'.withContext /\ chat'.pc \in {"send", "done"}
     /\ \A p \in Fetchers :
          (chat.pc = "analisar" /\ fetches > chat.fetches0 /\ ft[p].pc = "thrown"
             /\ chat' # chat)
          => /\ chat'.pc = "send" /\ chat'.status = 0 /\ chat'.withContext
             /\ \A k \in {"leads", "produtosLeads", "atividades", "pedidos", "produtos",
                          "clientes", "financeiro", "funis", "estagiosFunis"} :
                  chat'.dadosSistema[k] = <<>>
             /\ \A k \in {"totalLeads", "totalAtividades", "totalPedidos", "totalProdutos",
                          "totalClientes", "totalFinanceiro", "valorTotalPedidos",
                          "valorTotalFinanceiro", "valorRecebido", "valorPendente"} :
                  chat'.dadosSistema[k] = 0
     /\ (chat.pc = "send" /\ chat.threw /\ chat'.pc = "done")
        => chat'.status \in {200, 500} /\ chat'.dadosSistema = DadosNoCatch("Ana")]_vars

\* C37 happens: the one call of buscarDadosAnalise, made for a first message,
\* threw and that request went on to its answer; the next request, with turns
\* in its history, has been answered 200 with no further call
C37_Witness ==
  /\ chat.n = 2 /\ chat.pc = "done" /\ chat.status = 200
  /\ chat.history # <<>> /\ ~chat.withContext
  /\ fetches = 1 /\ chat.fetches0 = 1
  /\ \E p \in Fetchers : ft[p].pc = "thrown"

====
